---- MODULE Spec2Model ----
(***************************************************************************)
(* A model of METcalcpy's aggregation engine:                              *)
(*   - event_equalize            (metcalcpy/event_equalize.py)             *)
(*   - AggStat                   (metcalcpy/agg_stat.py)                   *)
(* Data frames are sequences of rows (records); a string-or-list argument  *)
(* is a tagged record [str |-> BOOLEAN, v |-> value].                      *)
(***************************************************************************)
EXTENDS Integers, Sequences, FiniteSets, TLC

VARIABLES
    ee_pc,        \* position of the event_equalize caller
    ee_cfg,       \* arguments of event_equalize other than the frame
    ee_in,        \* series_data handed to event_equalize
    ee_out,       \* the frame event_equalize returned
    ee_reported,  \* the numbers printed with warning_remove
    ee_detected,  \* warning_detected was printed
    ee_out2       \* the frame returned when event_equalize is applied to ee_out

eeVars == <<ee_pc, ee_cfg, ee_in, ee_out, ee_reported, ee_detected, ee_out2>>

VARIABLES
    agg_pc,                  \* position of the AggStat run
    params,                  \* AggStat.params
    input_data,              \* AggStat.input_data
    statistic,               \* AggStat.statistic
    derived_name_to_values,  \* AggStat.derived_name_to_values, insertion ordered
    all_series,              \* calculate_value_and_ci: all_series
    out_frame,               \* calculate_value_and_ci: out_frame
    series_ind,              \* calculate_value_and_ci: series_ind (0-based)
    stat_pos,                \* position of stat_upper in list_stat (1-based)
    series_pos,              \* position of series in all_series (1-based)
    series_to_distrib,       \* calculate_value_and_ci: series_to_distrib
    agg_done,                \* the series processed so far, with their results
    agg_error,               \* the exception that left calculate_value_and_ci
    agg_output,              \* the frame written to agg_stat_output
    random_state             \* the state of numpy's global random generator

aggVars == <<agg_pc, params, input_data, statistic, derived_name_to_values,
             all_series, out_frame, series_ind, stat_pos, series_pos,
             series_to_distrib, agg_done, agg_error, agg_output, random_state>>

VARIABLES
    stats_pc,                \* position of the call of a statistic function
    stats_input,             \* its arguments input_data and columns_names
    stats_func,              \* the name of the function called
    stats_result,            \* what the call returned or raised
    warning_filters,         \* warnings.filters: the actions, first match first
    filters_at_call          \* warnings.filters when the function was called

statsVars == <<stats_pc, stats_input, stats_func, stats_result, warning_filters,
               filters_at_call>>

VARIABLES
    arr_pc,                  \* position of the call of _calc_stats_derived on its own
    arr_first,               \* the retained matrix of the first component
    arr_second,              \* the retained matrix of the second component
    arr_operation,           \* the derived operation
    arr_draws,               \* the row positions drawn for each resample
    arr_stats                \* what _calc_stats_derived returned

arrVars == <<arr_pc, arr_first, arr_second, arr_operation, arr_draws, arr_stats>>

vars == <<eeVars, aggVars, statsVars, arrVars>>

NoValue == "None"

\* no statistic function is being called on its own
StatsIdle ==
    /\ stats_pc = "idle"
    /\ stats_input = [family |-> NoValue, columns_names |-> {}, rows |-> <<>>]
    /\ stats_func = NoValue
    /\ stats_result = [kind |-> "None"]
    /\ warning_filters = <<"default">>
    /\ filters_at_call = <<"default">>

\* _calc_stats_derived is not being called on its own
ArrIdle ==
    /\ arr_pc = "idle"
    /\ arr_first = <<>>
    /\ arr_second = <<>>
    /\ arr_operation = NoValue
    /\ arr_draws = <<>>
    /\ arr_stats = <<>>

\* pd.DataFrame(): a frame without columns and rows
NoFrame == [columns |-> {}, has_equalize |-> FALSE, equalize |-> <<>>, rows |-> <<>>]

(***************************************************************************)
(* Bounds and value domains                                                *)
(***************************************************************************)
MaxRows == 2

Times == {1, 2}
Leads == {12}
Models == {"A", "B"}
Levels == {"X", "Y"}
TemporalColumns == {"fcst_valid_beg", "fcst_valid", "fcst_init_beg", "fcst_init"}

EERows == [tkey : Times, fcst_lead : Leads, model : Models, level : Levels]

Str(s) == [str |-> TRUE, v |-> s]
Lst(l) == [str |-> FALSE, v |-> l]

(***************************************************************************)
(* Generic helpers                                                         *)
(***************************************************************************)
Range(s) == {s[i] : i \in 1..Len(s)}

RECURSIVE Concat(_)
Concat(ss) == IF ss = <<>> THEN <<>> ELSE Head(ss) \o Concat(Tail(ss))

\* str.split(','): the comma-separated parts of a configured value
Split(s) ==
    CASE s = "A,B" -> <<"A", "B">>
      [] s = "X,Y" -> <<"X", "Y">>
      [] OTHER -> <<s>>

\* itertools.product(*lists): tuples in itertools order (last list fastest)
RECURSIVE Product(_)
Product(lists) ==
    IF lists = <<>> THEN << <<>> >>
    ELSE LET rest == Product(Tail(lists))
             first == Head(lists)
         IN Concat([i \in 1..Len(first) |->
                       [j \in 1..Len(rest) |-> <<first[i]>> \o rest[j]]])

(***************************************************************************)
(* event_equalize                                                          *)
(***************************************************************************)
exception_columns ==
    {"fcst_valid_beg", "fcst_lead", "fcst_valid", "fcst_init", "fcst_init_beg"}

\* list(series_data): the column names of a frame; data.equalize is the
\* 'equalize' column (one value per row) once data.has_equalize
column_names(data) ==
    data.columns \cup (IF data.has_equalize THEN {"equalize"} ELSE {})

\* series_data[name] for one row
Cell(data, row, name) ==
    CASE name \in TemporalColumns -> row.tkey
      [] name = "fcst_lead" -> row.fcst_lead
      [] name = "model" -> row.model
      [] name = "level" -> row.level
      [] name = "stat_name" -> row.stat_name
      [] name = "fcst_var" -> row.fcst_var

\* astype(str) + ' ' + astype(str): injective on (time, integer lead)
CaseKey(row) == <<row.tkey, row.fcst_lead>>

\* truthiness of a Python string
Truthy(s) == s # ""

\* the guard of "add independent variable if needed"
AddsIndy(cfg) ==
    cfg.equalize_by_indep /\ ~Truthy(cfg.indy_var)
        /\ cfg.indy_var \notin exception_columns

\* the 'equalize' column after the if/elif on the temporal column: built for
\* the two fcst_valid* columns only, otherwise left as it was
BuildsEqualize(data) ==
    "fcst_valid_beg" \in column_names(data) \/ "fcst_valid" \in column_names(data)

TimeLeadColumn(data) ==
    IF BuildsEqualize(data)
    THEN [i \in 1..Len(data.rows) |-> CaseKey(data.rows[i])]
    ELSE data.equalize

\* series_data['equalize'] once the independent variable is added if needed
EqualizeColumn(data, cfg) ==
    IF AddsIndy(cfg)
    THEN [i \in 1..Len(data.rows) |->
             TimeLeadColumn(data)[i] \o <<Cell(data, data.rows[i], cfg.indy_var)>>]
    ELSE TimeLeadColumn(data)

\* isinstance(fix_vars, str): fix_vars = [fix_vars]
FixVarsList(fix_vars) == IF fix_vars.str THEN <<fix_vars.v>> ELSE fix_vars.v

\* dict[key] = value on an insertion-ordered dict held as a sequence of pairs
DictSet(d, key, value) ==
    IF \E i \in 1..Len(d) : d[i][1] = key
    THEN [i \in 1..Len(d) |-> IF d[i][1] = key THEN <<key, value>> ELSE d[i]]
    ELSE Append(d, <<key, value>>)

\* "add series variables"
RECURSIVE AddSeriesVars(_, _)
AddSeriesVars(d, series_var_vals) ==
    IF series_var_vals = <<>> THEN d
    ELSE LET series_var == Head(series_var_vals)[1]
             given == Head(series_var_vals)[2]
             series_vals == IF given.str THEN <<given.v>> ELSE given.v
             series_vals_no_groups ==
                 Concat([i \in 1..Len(series_vals) |-> Split(series_vals[i])])
         IN AddSeriesVars(
                IF series_var \notin exception_columns
                THEN DictSet(d, series_var, series_vals_no_groups)
                ELSE d,
                Tail(series_var_vals))

\* one turn of "add fixed variables if present": a string value is wrapped in
\* a list and then not stored, only a list value is stored
AddFixVar(d, fix_var, vals) ==
    IF fix_var \notin exception_columns /\ ~vals.str
    THEN DictSet(d, fix_var, vals.v)
    ELSE d

RECURSIVE AddFixVars(_, _, _, _)
AddFixVars(d, fix_vars, fix_vals_permuted, ind) ==
    IF ind > Len(fix_vars) THEN d
    ELSE AddFixVars(AddFixVar(d, fix_vars[ind], fix_vals_permuted[ind]),
                    fix_vars, fix_vals_permuted, ind + 1)

vars_for_ee(cfg) ==
    LET fix_vars == FixVarsList(cfg.fix_vars)
        with_series == AddSeriesVars(<<>>, cfg.series_var_vals)
    IN IF fix_vars # <<>>
       THEN AddFixVars(with_series, fix_vars, cfg.fix_vals_permuted, 1)
       ELSE with_series

vars_for_ee_permuted(cfg) ==
    LET d == vars_for_ee(cfg)
    IN Product([i \in 1..Len(d) |-> d[i][2]])

\* represents_int(): isinstance(value, int). Series values come out of
\* str.split and the fixed values of this model are strings, so no value that
\* reaches the filter is an int
IntValues == {}

represents_int(possible_int) == possible_int \in IntValues

\* the positions of the rows that match every variable of the permutation
\* (int(x) of an int is x, so both branches of the filter compare for equality)
permutation_data(data, cfg, permutation) ==
    LET d == vars_for_ee(cfg)
    IN SelectSeq([i \in 1..Len(data.rows) |-> i],
                 LAMBDA i : \A k \in 1..Len(d) :
                     IF represents_int(permutation[k])
                     THEN Cell(data, data.rows[i], d[k][1]) = permutation[k]
                     ELSE Cell(data, data.rows[i], d[k][1]) = permutation[k])

\* permutation_data['equalize']
PermutationCases(data, cfg, equalize, permutation) ==
    LET idx == permutation_data(data, cfg, permutation)
    IN [k \in 1..Len(idx) |-> equalize[idx[k]]]

\* equalization_cases[common_cases_ind]
CommonCases(equalization_cases, perm_cases) ==
    SelectSeq(equalization_cases, LAMBDA c : c \in Range(perm_cases))

\* the loop over the permutations, from permutation_index on
RECURSIVE EqualizationCases(_, _, _, _, _, _)
EqualizationCases(data, cfg, equalize, perms, permutation_index, equalization_cases) ==
    IF permutation_index > Len(perms) THEN equalization_cases
    ELSE LET perm_cases ==
                 PermutationCases(data, cfg, equalize, perms[permutation_index])
         IN EqualizationCases(data, cfg, equalize, perms, permutation_index + 1,
                IF permutation_index = 1 THEN perm_cases
                ELSE CommonCases(equalization_cases, perm_cases))

\* the non-uniqueness warning is printed for some permutation
DetectsNonUnique(data, cfg, multi) ==
    \E p \in Range(vars_for_ee_permuted(cfg)) :
        LET cases == PermutationCases(data, cfg, data.equalize, p)
        IN ~multi /\ Len(cases) # Cardinality(Range(cases))

\* a merge on the case instead of isin: a row is repeated once per occurrence
\* of its case among the equalization cases
SelectCasesByMerge(equalize, equalization_cases) ==
    Concat([i \in 1..Len(equalize) |->
               LET hits == SelectSeq(equalization_cases, LAMBDA c : c = equalize[i])
               IN [k \in 1..Len(hits) |-> i]])

\* equalization_cases_ind: the positions whose case is an equalization case
SelectCases(equalize, equalization_cases) ==
    SelectSeq([i \in 1..Len(equalize) |-> i],
              LAMBDA i : equalize[i] \in Range(equalization_cases))

\* the argument of warning_remove
RemovedCount(series_data, series_data_ee) ==
    Len(series_data.rows) - Len(series_data_ee.rows)

\* a KeyError leaves event_equalize: no 'equalize' column was built, or a
\* column named by the arguments is not in the frame
EERaises(data, cfg) ==
    \/ ~BuildsEqualize(data) /\ ~data.has_equalize
    \/ AddsIndy(cfg) /\ cfg.indy_var \notin column_names(data)
    \/ /\ vars_for_ee_permuted(cfg) # <<>>
       /\ \E i \in 1..Len(vars_for_ee(cfg)) :
              vars_for_ee(cfg)[i][1] \notin column_names(data)

\* series_data after event_equalize: the 'equalize' column is set in place
EEMutated(data, cfg) ==
    IF ~BuildsEqualize(data) /\ ~data.has_equalize
    THEN data
    ELSE [data EXCEPT
            !.has_equalize = TRUE,
            !.equalize = IF AddsIndy(cfg) /\ cfg.indy_var \notin column_names(data)
                         THEN TimeLeadColumn(data)
                         ELSE EqualizeColumn(data, cfg)]

\* the final filter applied to the frame of the last permutation instead of
\* series_data
event_equalize_of_last_permutation(data, cfg) ==
    LET series_data == EEMutated(data, cfg)
        perms == vars_for_ee_permuted(cfg)
        equalization_cases ==
            EqualizationCases(series_data, cfg, series_data.equalize, perms, 1, <<>>)
        last == IF perms = <<>> THEN [i \in 1..Len(series_data.rows) |-> i]
                ELSE permutation_data(series_data, cfg, perms[Len(perms)])
        kept == SelectSeq(last, LAMBDA i :
                    series_data.equalize[i] \in Range(equalization_cases))
    IN [columns |-> data.columns, has_equalize |-> TRUE,
        equalize |-> [k \in 1..Len(kept) |-> series_data.equalize[kept[k]]],
        rows |-> [k \in 1..Len(kept) |-> series_data.rows[kept[k]]]]

\* the frame event_equalize returns
event_equalize(data, cfg) ==
    LET series_data == EEMutated(data, cfg)
        perms == vars_for_ee_permuted(cfg)
        equalization_cases ==
            EqualizationCases(series_data, cfg, series_data.equalize, perms, 1, <<>>)
        kept == SelectCases(series_data.equalize, equalization_cases)
    IN [columns |-> data.columns, has_equalize |-> TRUE,
        equalize |-> [k \in 1..Len(kept) |-> series_data.equalize[kept[k]]],
        rows |-> [k \in 1..Len(kept) |-> series_data.rows[kept[k]]]]

\* the counts event_equalize prints with warning_remove: one, or none
EEReport(series_data, series_data_ee) ==
    IF Len(series_data_ee.rows) # Len(series_data.rows)
    THEN <<RemovedCount(series_data, series_data_ee)>>
    ELSE <<>>

(***************************************************************************)
(* AggStat: values and results                                             *)
(***************************************************************************)
MaxAggRows == 2

StatNames == {"FBAR", "OBAR", "FOO", "FBIAS", "BAGGS", "BAGSS"}
AggTemporalColumns == {"fcst_valid", "fcst_init"}

AggRows == [tkey : Times, fcst_lead : Leads, model : Models, level : {"X", "A", "500", "P500"},
            stat_name : StatNames, fcst_var : {"TMP"},
            total : {2}, fbar : {3}, obar : {5},
            fy_oy : {7}, fy_on : {11}, fn_on : {13}, fn_oy : {17}]

AggColumns == {"fcst_lead", "model", "level", "stat_name", "fcst_var",
               "total", "fbar", "obar", "fy_oy", "fy_on", "fn_on", "fn_oy"}

\* the rows of a frame at the given positions, the 'equalize' column with them
TakeRows(data, idx) ==
    [data EXCEPT
        !.rows = [k \in 1..Len(idx) |-> data.rows[idx[k]]],
        !.equalize = IF data.has_equalize
                     THEN [k \in 1..Len(idx) |-> data.equalize[idx[k]]]
                     ELSE <<>>]

\* DataFrame.empty: no rows or no columns
Empty(data) == data.rows = <<>> \/ column_names(data) = {}

\* a + "," + b for two statistic names
JoinComma(a, b) ==
    CASE a = "FBAR" /\ b = "OBAR" -> "FBAR,OBAR"
      [] a = "OBAR" /\ b = "FBAR" -> "OBAR,FBAR"

\* str.lower() of a statistic name
Lower(s) ==
    CASE s = "FBAR" -> "fbar"
      [] s = "OBAR" -> "obar"
      [] s = "FOO" -> "foo"
      [] s = "FBIAS" -> "fbias"
      [] s = "BAGGS" -> "baggs"
      [] s = "BAGSS" -> "bagss"
      [] s = "SSVAR_RMSE" -> "ssvar_rmse"
      [] s = "SSVAR_Spread" -> "ssvar_spread"
      [] OTHER -> s

\* the names n for which statistics.py defines calculate_<n> (those the model uses)
StatisticFunctions == {"fbar", "obar", "fbias", "bagss", "ssvar_rmse", "ssvar_spread"}

\* STATISTIC_TO_FIELDS (the entries the model uses)
STATISTIC_TO_FIELDS ==
    [fbar |-> <<"fbar">>, obar |-> <<"obar">>,
     fbias |-> <<"fy_oy", "fn_on", "fy_oy", "fy_on">>,
     baggs |-> <<"fy_oy", "fn_oy", "fy_on">>]

EXEMPTED_VARS == {"SSVAR_Spread", "SSVAR_RMSE"}

\* a missing value, a statistic value and a derived value
NoneValue == [kind |-> "None"]

\* globals()[func_name](values, self.column_names): the formula applied to data
StatValue(stat, rows) == [kind |-> "stat", stat |-> stat, data |-> rows]

\* calc_derived_curve_value([v1], [v2], operation)[0]
DerivedValue(operation, v1, v2) ==
    [kind |-> "derived", operation |-> operation, first |-> v1, second |-> v2]

\* a confidence bound as bootstrap_and_value computes it from its arguments
Bound(side, value, ci_method, alpha) ==
    [kind |-> "bound", side |-> side, of |-> value,
     ci_method |-> ci_method, alpha |-> alpha]

\* BootstrapDistributionResults(lower_bound, value, upper_bound); values is the
\* retained original data, a sequence of rows when has_values
Results(lower_bound, value, upper_bound) ==
    [lower_bound |-> lower_bound, value |-> value, upper_bound |-> upper_bound,
     has_values |-> FALSE, values |-> <<>>]

\* results.set_original_values(data)
SetOriginalValues(results, rows) ==
    [results EXCEPT !.has_values = TRUE, !.values = rows]

NoneResults == Results(NoneValue, NoneValue, NoneValue)

\* the default of an argument that the caller does not pass
DefaultAlpha == "default"

\* bootstrap_and_value(data, stat_func, num_iterations, num_threads, ci_method,
\* alpha, save_data) where stat_func computes `value` for the unresampled data
BootstrapAndValue(rows, value, ci_method, alpha, save_data) ==
    LET results == Results(Bound("lower", value, ci_method, alpha), value,
                           Bound("upper", value, ci_method, alpha))
    IN IF save_data THEN SetOriginalValues(results, rows) ELSE results

(***************************************************************************)
(* AggStat: series resolver                                                *)
(***************************************************************************)
\* str.split(' ') of a derived-series component
SplitBlank(s) ==
    CASE s = "A TMP FBAR" -> <<"A", "TMP", "FBAR">>
      [] s = "B TMP FBAR" -> <<"B", "TMP", "FBAR">>
      [] s = "C TMP FBAR" -> <<"C", "TMP", "FBAR">>
      [] OTHER -> <<s>>

\* get_derived_curve_name(derived_serie): operation(first sign second)
get_derived_curve_name(derived_serie) ==
    CASE derived_serie = <<"A TMP FBAR", "B TMP FBAR", "DIFF">>
             -> "DIFF(A TMP FBAR-B TMP FBAR)"
      [] derived_serie = <<"B TMP FBAR", "A TMP FBAR", "RATIO">>
             -> "RATIO(B TMP FBAR/A TMP FBAR)"
      [] derived_serie = <<"A TMP FBAR", "A TMP FBAR", "DIFF">>
             -> "DIFF(A TMP FBAR-A TMP FBAR)"
      [] derived_serie = <<"C TMP FBAR", "A TMP FBAR", "DIFF">>
             -> "DIFF(C TMP FBAR-A TMP FBAR)"

\* the strings that start with an operation name and "("
DerivedCurveNames ==
    {"DIFF(A TMP FBAR-B TMP FBAR)", "RATIO(B TMP FBAR/A TMP FBAR)",
     "DIFF(A TMP FBAR-A TMP FBAR)", "DIFF(C TMP FBAR-A TMP FBAR)"}

\* is_derived_series(series): some component starts with "<operation>("
is_derived_series(series) == \E i \in 1..Len(series) : series[i] \in DerivedCurveNames

\* the values that int() accepts, and what it gives
IntegerLike == {"500"}
IntOf(s) == CASE s = "500" -> 500

\* is_string_integer(str_int): int(str_int) does not raise
is_string_integer(str_int) == str_int \in IntegerLike

\* intersection(l_1, l_2): the values of l_1 that are in l_2
intersection(l_1, l_2) == SelectSeq(l_1, LAMBDA x : x \in Range(l_2))

\* unique(in_list): first occurrences, order kept
RECURSIVE unique(_)
unique(in_list) ==
    IF in_list = <<>> THEN <<>>
    ELSE LET front == unique(SubSeq(in_list, 1, Len(in_list) - 1))
             last == in_list[Len(in_list)]
         IN IF last \in Range(front) THEN front ELSE Append(front, last)

\* the value stored in a dict held as a sequence of pairs
DictGet(d, key) == d[CHOOSE i \in 1..Len(d) : d[i][1] = key][2]

DictHas(d, key) == \E i \in 1..Len(d) : d[i][1] = key

\* DerivedCurveComponent(first_component, second_component, derived_operation)
DerivedCurveComponent(first_component, second_component, derived_operation) ==
    [first_component |-> first_component, second_component |-> second_component,
     derived_operation |-> derived_operation]

\* all_fields_values: series_val, then the independent variable, then stat_name
all_fields_values(p) ==
    DictSet(DictSet(p.series_val, p.indy_var, p.indy_vals), "stat_name", p.list_stat)

\* list(itertools.product(*all_fields_values.values()))
BaseSeries(p) ==
    Product([i \in 1..Len(all_fields_values(p)) |-> all_fields_values(p)[i][2]])

\* derived_val of _get_derived_series for one derived_serie
derived_val(p, derived_serie) ==
    LET series_var == p.series_val[Len(p.series_val)][1]
        ds_1 == SplitBlank(derived_serie[1])
        ds_2 == SplitBlank(derived_serie[2])
        narrowed == [i \in 1..Len(p.series_val) |->
                        IF p.series_val[i][1] = series_var
                        THEN <<series_var, <<get_derived_curve_name(derived_serie)>> >>
                        ELSE <<p.series_val[i][1], intersection(p.series_val[i][2], ds_1)>>]
    IN DictSet(DictSet(narrowed, p.indy_var, p.indy_vals), "stat_name",
               IF ds_1[Len(ds_1)] = ds_2[Len(ds_2)]
               THEN <<ds_1[Len(ds_1)]>>
               ELSE <<JoinComma(ds_1[Len(ds_1)], ds_2[Len(ds_2)])>>)

\* _get_derived_series: the return statement is inside the loop over the
\* derived series, so the first derived series alone is resolved
get_derived_series(p) ==
    LET derived_serie == p.derived_series[1]
        d == derived_val(p, derived_serie)
    IN Product([i \in 1..Len(d) |-> d[i][2]])

\* self.derived_name_to_values after _get_derived_series
derived_names_after(p, names) ==
    LET derived_serie == p.derived_series[1]
    IN DictSet(names, get_derived_curve_name(derived_serie),
               DerivedCurveComponent(SplitBlank(derived_serie[1]),
                                     SplitBlank(derived_serie[2]),
                                     derived_serie[Len(derived_serie)]))

\* all_series with the derived series put in front
AllSeriesDerivedFirst(p) ==
    IF p.derived_series # <<>>
    THEN get_derived_series(p) \o BaseSeries(p)
    ELSE BaseSeries(p)

\* all_series of calculate_value_and_ci
AllSeries(p) ==
    IF p.derived_series # <<>>
    THEN BaseSeries(p) \o get_derived_series(p)
    ELSE BaseSeries(p)

\* _init_out_frame: one row per series, the result cells None
init_out_frame(series) ==
    [i \in 1..Len(series) |->
        [series |-> series[i], stat_value |-> NoneValue, stat_bcl |-> NoneValue,
         stat_bcu |-> NoneValue, nstats |-> <<>>]]

(***************************************************************************)
(* AggStat: estimation                                                     *)
(***************************************************************************)
\* the outcome of a call: the exception that left it, or the value it returned
Raised(error, where) == [raised |-> TRUE, error |-> error, where |-> where,
                         results |-> NoneResults]
Returned(results) == [raised |-> FALSE, error |-> NoValue, where |-> NoValue,
                      results |-> results]

\* the order of the stat_name values
StatRank(stat_name) ==
    CASE stat_name = "BAGGS" -> 0
      [] stat_name = "BAGSS" -> 0
      [] stat_name = "FBAR" -> 1
      [] stat_name = "FBIAS" -> 2
      [] stat_name = "FOO" -> 3
      [] stat_name = "OBAR" -> 4
      [] stat_name = "SSVAR_RMSE" -> 5
      [] stat_name = "SSVAR_Spread" -> 6

\* row a sorts before row b by (temporal key, fcst_lead, stat_name)
SortsBefore(a, b) ==
    \/ a.tkey < b.tkey
    \/ a.tkey = b.tkey /\ a.fcst_lead < b.fcst_lead
    \/ a.tkey = b.tkey /\ a.fcst_lead = b.fcst_lead
           /\ StatRank(a.stat_name) < StatRank(b.stat_name)

\* insert position i among the sorted positions idx, after its equals
RECURSIVE InsertSorted(_, _, _)
InsertSorted(rows, idx, i) ==
    IF idx = <<>> THEN <<i>>
    ELSE IF SortsBefore(rows[i], rows[Head(idx)]) THEN <<i>> \o idx
    ELSE <<Head(idx)>> \o InsertSorted(rows, Tail(idx), i)

RECURSIVE SortedPositions(_, _)
SortedPositions(rows, n) ==
    IF n = 0 THEN <<>>
    ELSE InsertSorted(rows, SortedPositions(rows, n - 1), n)

\* _sort_data: series_data.sort_values(by=[temporal key, fcst_lead, stat_name])
sort_data(series_data) ==
    TakeRows(series_data, SortedPositions(series_data.rows, Len(series_data.rows)))

\* row[column] = row[column] * row['total']
ScaleColumn(row, column) ==
    CASE column = "fbar" -> [row EXCEPT !.fbar = row.fbar * row.total]
      [] column = "obar" -> [row EXCEPT !.obar = row.obar * row.total]
      [] column = "fy_oy" -> [row EXCEPT !.fy_oy = row.fy_oy * row.total]
      [] column = "fy_on" -> [row EXCEPT !.fy_on = row.fy_on * row.total]
      [] column = "fn_on" -> [row EXCEPT !.fn_on = row.fn_on * row.total]
      [] column = "fn_oy" -> [row EXCEPT !.fn_oy = row.fn_oy * row.total]

RECURSIVE ScaleColumns(_, _)
ScaleColumns(row, columns) ==
    IF columns = <<>> THEN row
    ELSE ScaleColumns(ScaleColumn(row, Head(columns)), Tail(columns))

\* a preparation that leaves every column as it is
prepare_without_scaling(stat, data_for_prepare) == data_for_prepare

\* _prepare_sl1l2_data: every column of STATISTIC_TO_FIELDS[statistic] times total
prepare_sl1l2_data(stat, data_for_prepare) ==
    [data_for_prepare EXCEPT
        !.rows = [i \in 1..Len(data_for_prepare.rows) |->
                     ScaleColumns(data_for_prepare.rows[i], STATISTIC_TO_FIELDS[stat])]]

\* _prepare_ctc_data: nothing is done
prepare_ctc_data(stat, data_for_prepare) == data_for_prepare

\* the line types for which AggStat has a _prepare_<line_type>_data method
PrepareMethods == {"sl1l2", "ctc"}

\* _get_bootstrapped_stats that resamples whatever num_iterations is
get_bootstrapped_stats_resampling(p, stat, series_data) ==
    IF Empty(series_data) THEN Returned(NoneResults)
    ELSE IF p.line_type \notin PrepareMethods
    THEN Raised("AttributeError", "_get_bootstrapped_stats")
    ELSE IF p.line_type = "sl1l2" /\ stat \notin DOMAIN STATISTIC_TO_FIELDS
    THEN Raised("KeyError", "_prepare_sl1l2_data")
    ELSE LET has_derived_series == p.derived_series # <<>>
             sorted == sort_data(series_data)
             data == IF p.line_type = "sl1l2"
                     THEN prepare_sl1l2_data(stat, sorted).rows
                     ELSE prepare_ctc_data(stat, sorted).rows
         IN IF stat \notin StatisticFunctions
            THEN Returned(NoneResults)
            ELSE Returned(BootstrapAndValue(data, StatValue(stat, data),
                                            p.method, DefaultAlpha,
                                            has_derived_series))

\* _get_bootstrapped_stats that does not look whether the frame is empty
get_bootstrapped_stats_of_any_frame(p, stat, series_data) ==
    IF p.line_type \notin PrepareMethods
    THEN Raised("AttributeError", "_get_bootstrapped_stats")
    ELSE IF p.line_type = "sl1l2" /\ stat \notin DOMAIN STATISTIC_TO_FIELDS
    THEN Raised("KeyError", "_prepare_sl1l2_data")
    ELSE LET has_derived_series == p.derived_series # <<>>
             sorted == sort_data(series_data)
             data == IF p.line_type = "sl1l2"
                     THEN prepare_sl1l2_data(stat, sorted).rows
                     ELSE prepare_ctc_data(stat, sorted).rows
         IN IF p.num_iterations = 1
            THEN IF stat \notin StatisticFunctions
                 THEN Raised("KeyError", "_calc_stats")
                 ELSE LET results == Results(NoneValue, StatValue(stat, data), NoneValue)
                      IN Returned(IF has_derived_series
                                  THEN SetOriginalValues(results, data)
                                  ELSE results)
            ELSE IF stat \notin StatisticFunctions
                 THEN Returned(NoneResults)
                 ELSE Returned(BootstrapAndValue(data, StatValue(stat, data),
                                                 p.method, DefaultAlpha,
                                                 has_derived_series))

\* _get_bootstrapped_stats(series_data)
get_bootstrapped_stats(p, stat, series_data) ==
    IF Empty(series_data) THEN Returned(NoneResults)
    ELSE IF p.line_type \notin PrepareMethods
    THEN Raised("AttributeError", "_get_bootstrapped_stats")
    ELSE IF p.line_type = "sl1l2" /\ stat \notin DOMAIN STATISTIC_TO_FIELDS
    THEN Raised("KeyError", "_prepare_sl1l2_data")
    ELSE LET has_derived_series == p.derived_series # <<>>
             sorted == sort_data(series_data)
             data == IF p.line_type = "sl1l2"
                     THEN prepare_sl1l2_data(stat, sorted).rows
                     ELSE prepare_ctc_data(stat, sorted).rows
         IN IF p.num_iterations = 1
            THEN IF stat \notin StatisticFunctions
                 THEN Raised("KeyError", "_calc_stats")
                 ELSE LET results == Results(NoneValue, StatValue(stat, data), NoneValue)
                      IN Returned(IF has_derived_series
                                  THEN SetOriginalValues(results, data)
                                  ELSE results)
            ELSE IF stat \notin StatisticFunctions
                 THEN Returned(NoneResults)
                 ELSE Returned(BootstrapAndValue(data, StatValue(stat, data),
                                                 p.method, DefaultAlpha,
                                                 has_derived_series))

\* x in EXEMPTED_VARS, for x a list or a string
InExemptedVars(x) == x.str /\ x.v \in EXEMPTED_VARS

\* the number of different (temporal key, fcst_lead, stat_name) rows
unique_date_size(rows) ==
    Cardinality({<<rows[i].tkey, rows[i].fcst_lead, rows[i].stat_name>> :
                    i \in 1..Len(rows)})

\* _validate_series_cases_for_derived_operation raises NameError
ValidationRaises(list_stat, rows) ==
    Len(rows) # unique_date_size(rows) /\ ~InExemptedVars(list_stat)

\* all(elem in permute for elem in key)
AllIn(key, permute) == \A i \in 1..Len(key) : key[i] \in Range(permute)

\* ds_1 and ds_2: None, or the distribution found and the key it was found at
NotFound == [found |-> FALSE, key |-> <<>>, results |-> NoneResults]
Found(key, results) == [found |-> TRUE, key |-> key, results |-> results]

\* the loop that looks for ds_1 and ds_2 among the distributions, from k on
RECURSIVE FindComponents(_, _, _, _, _, _)
FindComponents(distributions, permute_1, permute_2, k, ds_1, ds_2) ==
    IF k > Len(distributions) THEN <<ds_1, ds_2>>
    ELSE LET key == distributions[k][1]
             next_1 == IF AllIn(key, permute_1)
                       THEN Found(key, distributions[k][2]) ELSE ds_1
             next_2 == IF AllIn(key, permute_2)
                       THEN Found(key, distributions[k][2]) ELSE ds_2
         IN IF next_1.found /\ next_2.found THEN <<next_1, next_2>>
            ELSE FindComponents(distributions, permute_1, permute_2, k + 1,
                                next_1, next_2)

\* permute_for_first_series and permute_for_second_series
permute_for_series(component, series) ==
    <<unique(component.first_component \o Tail(series)),
      unique(component.second_component \o Tail(series))>>

\* the lookup with the two candidate sets exchanged
ComponentsFoundExchanged(names, series, distributions) ==
    IF ~DictHas(names, series[1]) THEN <<NotFound, NotFound>>
    ELSE LET permute == permute_for_series(DictGet(names, series[1]), series)
         IN FindComponents(distributions, permute[2], permute[1], 1,
                           NotFound, NotFound)

\* ds_1 and ds_2 of _get_bootstrapped_stats_for_derived after the loop
ComponentsFound(names, series, distributions) ==
    IF ~DictHas(names, series[1]) THEN <<NotFound, NotFound>>
    ELSE LET permute == permute_for_series(DictGet(names, series[1]), series)
         IN FindComponents(distributions, permute[1], permute[2], 1,
                           NotFound, NotFound)

\* series_data.to_numpy(): the cells of every row, in the order of the columns
to_numpy(rows) ==
    [k \in 1..Len(rows) |->
        <<rows[k].tkey, rows[k].fcst_lead, rows[k].model, rows[k].level,
          rows[k].stat_name, rows[k].fcst_var, rows[k].total, rows[k].fbar,
          rows[k].obar, rows[k].fy_oy, rows[k].fy_on, rows[k].fn_on,
          rows[k].fn_oy>>]

\* a statistic function reads the cells of an array by the position of the
\* column's name in columns_names
by_column_names(array) ==
    [k \in 1..Len(array) |->
        [tkey |-> array[k][1], fcst_lead |-> array[k][2], model |-> array[k][3],
         level |-> array[k][4], stat_name |-> array[k][5], fcst_var |-> array[k][6],
         total |-> array[k][7], fbar |-> array[k][8], obar |-> array[k][9],
         fy_oy |-> array[k][10], fy_on |-> array[k][11], fn_on |-> array[k][12],
         fn_oy |-> array[k][13]]]

\* np.full((n, 1), operation): one column that holds the operation
np_full(n, operation) == [k \in 1..n |-> <<operation>>]

\* np.concatenate((a, b), axis=1): row k is row k of a followed by row k of b
concatenate(a, b) == [k \in 1..Len(a) |-> a[k] \o b[k]]

\* values_both_arrays of _get_bootstrapped_stats_for_derived
values_both_arrays(values_1, values_2, operation) ==
    concatenate(concatenate(values_1, values_2), np_full(Len(values_1), operation))

\* array[:, first:last] for 0-based first and last
Columns(array, first, last) ==
    [k \in 1..Len(array) |-> SubSeq(array[k], first + 1, last)]

\* a split one column after the middle
split_after_middle(num_of_columns) == num_of_columns \div 2 + 1

\* int(num_of_columns / 2)
split_column(num_of_columns) == num_of_columns \div 2

\* _calc_stats_derived for an array of two dimensions
calc_stats_derived_2d(stat, both_arrays) ==
    LET num_of_columns == Len(both_arrays[1]) - 1
        values_1 == Columns(both_arrays, 0, split_column(num_of_columns))
        values_2 == Columns(both_arrays, split_column(num_of_columns), num_of_columns)
    IN DerivedValue(both_arrays[1][Len(both_arrays[1])],
                    StatValue(stat, values_1), StatValue(stat, values_2))

\* _calc_stats_derived for an array of three dimensions: one derived value for
\* every block, in the order of the blocks
calc_stats_derived_3d(stat, blocks) ==
    [b \in 1..Len(blocks) |-> calc_stats_derived_2d(stat, blocks[b])]

\* the derived value of two retained tables: the statistic function reads the
\* arrays that _calc_stats_derived hands to it by column name
DerivedOfTables(stat, rows_1, rows_2, operation) ==
    LET derived == calc_stats_derived_2d(
                       stat, values_both_arrays(to_numpy(rows_1), to_numpy(rows_2),
                                                operation))
    IN DerivedValue(derived.operation,
                    StatValue(stat, by_column_names(derived.first.data)),
                    StatValue(stat, by_column_names(derived.second.data)))

\* _get_bootstrapped_stats_for_derived that does not look at the retained data
\* before it validates and combines
get_bootstrapped_stats_for_derived_unguarded(p, stat, names, series, distributions) ==
    IF ~DictHas(names, series[1])
    THEN Raised("KeyError", "derived_name_to_values")
    ELSE
    LET component == DictGet(names, series[1])
        both == ComponentsFound(names, series, distributions)
        ds_1 == both[1]
        ds_2 == both[2]
        operation == component.derived_operation
    IN IF ~ds_1.found \/ ~ds_2.found THEN Raised("AttributeError", "component lookup")
       ELSE IF \/ ValidationRaises(Lst(p.list_stat), ds_1.results.values)
               \/ ValidationRaises(Lst(p.list_stat), ds_2.results.values)
       THEN Raised("NameError", "validation")
       ELSE IF p.num_iterations = 1
       THEN Returned(Results(NoneValue,
                             DerivedValue(operation, ds_1.results.value,
                                          ds_2.results.value),
                             NoneValue))
       ELSE IF Len(ds_1.results.values) # Len(ds_2.results.values)
       THEN Raised("ValueError", "np.concatenate")
       ELSE IF stat \notin StatisticFunctions
       THEN Returned(NoneResults)
       ELSE Returned(BootstrapAndValue(
                <<ds_1.results.values, ds_2.results.values, operation>>,
                DerivedOfTables(stat, ds_1.results.values, ds_2.results.values,
                                operation),
                p.method, p.alpha, FALSE))

\* _get_bootstrapped_stats_for_derived(series, distributions)
get_bootstrapped_stats_for_derived(p, stat, names, series, distributions) ==
    IF ~DictHas(names, series[1])
    THEN Raised("KeyError", "derived_name_to_values")
    ELSE
    LET component == DictGet(names, series[1])
        both == ComponentsFound(names, series, distributions)
        ds_1 == both[1]
        ds_2 == both[2]
        operation == component.derived_operation
    IN IF ~ds_1.found THEN Raised("AttributeError", "component lookup")
       ELSE IF ~ds_1.results.has_values THEN Returned(NoneResults)
       ELSE IF ~ds_2.found THEN Raised("AttributeError", "component lookup")
       ELSE IF \/ ~ds_2.results.has_values
               \/ ds_1.results.values = <<>> \/ ds_2.results.values = <<>>
       THEN Returned(NoneResults)
       ELSE IF \/ ValidationRaises(Lst(p.list_stat), ds_1.results.values)
               \/ ValidationRaises(Lst(p.list_stat), ds_2.results.values)
       THEN Raised("NameError", "validation")
       ELSE IF p.num_iterations = 1
       THEN Returned(Results(NoneValue,
                             DerivedValue(operation, ds_1.results.value,
                                          ds_2.results.value),
                             NoneValue))
       ELSE IF Len(ds_1.results.values) # Len(ds_2.results.values)
       THEN Raised("ValueError", "np.concatenate")
       ELSE IF stat \notin StatisticFunctions
       THEN Returned(NoneResults)
       ELSE Returned(BootstrapAndValue(
                <<ds_1.results.values, ds_2.results.values, operation>>,
                DerivedOfTables(stat, ds_1.results.values, ds_2.results.values,
                                operation),
                p.method, p.alpha, FALSE))

\* pd.read_csv: a column of the file is read as integers when every token of
\* it is one, and as strings otherwise
ColumnOfIntegers(data, name) ==
    \A i \in 1..Len(data.rows) : Cell(data, data.rows[i], name) \in IntegerLike

\* self.input_data[field] == filter_value for one row: an integer equals an
\* integer of the same value, a string the same string, and an integer and a
\* string are never equal
CellEquals(data, row, name, filter_value) ==
    IF is_string_integer(filter_value)
    THEN /\ ColumnOfIntegers(data, name)
         /\ IntOf(Cell(data, row, name)) = IntOf(filter_value)
    ELSE /\ ~ColumnOfIntegers(data, name)
         /\ Cell(data, row, name) = filter_value

\* the rows of input_data selected for a base series
SeriesData(p, data, series) ==
    LET fields == all_fields_values(p)
    IN TakeRows(data,
           SelectSeq([i \in 1..Len(data.rows) |-> i],
                     LAMBDA i : \A k \in 1..Len(fields) :
                         CellEquals(data, data.rows[i], fields[k][1], series[k])))

(***************************************************************************)
(* AggStat: event equalization of the input                                *)
(***************************************************************************)
\* parse_bool(self.params['event_equal'])
parse_bool(text) == text = "True"

\* the arguments _perform_event_equalization hands to event_equalize
EEArguments(p) ==
    [indy_var |-> p.indy_var,
     equalize_by_indep |-> TRUE,
     series_var_vals |-> [i \in 1..Len(p.series_val) |->
                             <<p.series_val[i][1], Lst(p.series_val[i][2])>>],
     fix_vars |-> Lst([i \in 1..Len(p.fixed_vars_vals_input) |->
                          p.fixed_vars_vals_input[i][1]]),
     fix_vals_permuted |->
         Concat([i \in 1..Len(p.fixed_vars_vals_input) |->
                    [k \in 1..Len(p.fixed_vars_vals_input[i][2]) |->
                        Lst(p.fixed_vars_vals_input[i][2][k])]])]

\* the (fcst_var, statistic, series variable) groups, in loop order
EEGroups(p) ==
    Concat([f \in 1..Len(p.fcst_var_val) |->
        Concat([t \in 1..Len(p.fcst_var_val[f][2]) |->
            [v \in 1..Len(p.series_val) |->
                [fcst_var |-> p.fcst_var_val[f][1],
                 fcst_var_stat |-> p.fcst_var_val[f][2][t],
                 series_var |-> p.series_val[v][1],
                 series_var_vals_no_group |->
                     Concat([k \in 1..Len(p.series_val[v][2]) |->
                                Split(p.series_val[v][2][k])])]]])])

\* series_data_for_ee: the input rows of one group
series_data_for_ee(data, group) ==
    TakeRows(data,
        SelectSeq([i \in 1..Len(data.rows) |-> i],
                  LAMBDA i :
                      /\ Cell(data, data.rows[i], "fcst_var") = group.fcst_var
                      /\ Cell(data, data.rows[i], "stat_name") = group.fcst_var_stat
                      /\ Cell(data, data.rows[i], group.series_var)
                             \in Range(group.series_var_vals_no_group)))

\* the loop of _perform_event_equalization from group g on: the result of a
\* group replaces output_ee_data only while that is empty (DataFrame.append
\* returns a new frame, which is dropped)
RECURSIVE EqualizeGroups(_, _, _, _, _)
EqualizeGroups(p, data, groups, g, output_ee_data) ==
    IF g > Len(groups) THEN [raised |-> FALSE, data |-> output_ee_data]
    ELSE LET for_ee == series_data_for_ee(data, groups[g])
         IN IF EERaises(for_ee, EEArguments(p))
            THEN [raised |-> TRUE, data |-> output_ee_data]
            ELSE EqualizeGroups(p, data, groups, g + 1,
                     IF Empty(output_ee_data)
                     THEN event_equalize(for_ee, EEArguments(p))
                     ELSE output_ee_data)

\* _perform_event_equalization: self.input_data afterwards, or a KeyError
\* (the name event_equalize imported from the package is taken to be the
\* function of event_equalize.py)
perform_event_equalization(p, data) ==
    EqualizeGroups(p, data, EEGroups(p), 1, NoFrame)

(***************************************************************************)
(* AggStat: the run                                                        *)
(***************************************************************************)
NoError == [error |-> NoValue, where |-> NoValue]

DerivedAB == <<"A TMP FBAR", "B TMP FBAR", "DIFF">>
DerivedBA == <<"B TMP FBAR", "A TMP FBAR", "RATIO">>
DerivedAA == <<"A TMP FBAR", "A TMP FBAR", "DIFF">>
DerivedCA == <<"C TMP FBAR", "A TMP FBAR", "DIFF">>

\* the parameters of a run (the YAML record) that the model varies
ParamsOf(lt, ls, ni, ds, ee) ==
    [line_type |-> lt, list_stat |-> ls, num_iterations |-> ni,
     derived_series |-> ds, event_equal |-> ee,
     series_val |-> << <<"model", <<"A", "B">> >> >>,
     indy_var |-> "level", indy_vals |-> <<"X">>,
     fcst_var_val |-> << <<"TMP", ls>> >>,
     fixed_vars_vals_input |-> <<>>,
     method |-> "perc", alpha |-> "alpha", random_seed |-> <<>>]

AggParams ==
    {ParamsOf(lt, ls, ni, ds, ee) :
        lt \in {"ctc", "sl1l2"},
        ls \in {<<"FBAR">>, <<"FOO">>, <<"FBIAS">>, <<"FBAR", "FOO">>},
        ni \in {1, 2},
        ds \in {<<>>, <<DerivedAB>>, <<DerivedAB, DerivedBA>>, <<DerivedAA>>,
                <<DerivedCA>>},
        ee \in {"False", "True"}}

\* the global random generator: the seed it was last given (<<>> for none), how
\* often it was seeded and the resamplings drawn from it since
NotSeeded == [seed |-> <<>>, seedings |-> 0, draws |-> 0]

\* np.random.seed(random_seed)
np_random_seed(random_seed, state) ==
    [seed |-> random_seed, seedings |-> state.seedings + 1, draws |-> 0]

\* a run that leaves the generator as it is
seed_ignored(p, state) == state

\* calculate_value_and_ci: set random seed if present (<<>> stands for None)
seed_if_configured(p, state) ==
    IF p.random_seed # <<>> THEN np_random_seed(p.random_seed, state) ELSE state

\* bootstrap_and_value resampled: the results have bounds
Resampled(results) == results.lower_bound.kind = "bound"

\* the generator after the draws of one call of bootstrap_and_value
DrawnFrom(state) == [state EXCEPT !.draws = @ + 1]

AggIdle ==
    /\ statistic = NoValue
    /\ derived_name_to_values = <<>>
    /\ all_series = <<>>
    /\ out_frame = <<>>
    /\ series_ind = 0
    /\ stat_pos = 0
    /\ series_pos = 0
    /\ series_to_distrib = <<>>
    /\ agg_done = <<>>
    /\ agg_error = NoError
    /\ agg_output = <<>>
    /\ random_state = NotSeeded

\* AggStat(in_params): the parameters are saved, the input frame is read
AggInit ==
    /\ agg_pc = "read"
    /\ params \in AggParams
    /\ \E tcol \in AggTemporalColumns :
           input_data = [columns |-> {tcol} \cup AggColumns,
                         has_equalize |-> FALSE, equalize |-> <<>>, rows |-> <<>>]
    /\ AggIdle

\* the statistics the input file has records of: the requested ones and one
\* that no formula is registered for
StatNamesOfInput(p) == (Range(p.list_stat) \cap StatNames) \cup {"FOO"}

\* the levels the input file has records of: the independent values
LevelsOfInput(p) == Range(p.indy_vals)

\* pd.read_csv reads one more record
AggReadRow ==
    /\ agg_pc = "read"
    /\ Len(input_data.rows) < MaxAggRows
    /\ \E row \in AggRows :
           /\ row.stat_name \in StatNamesOfInput(params)
           /\ row.level \in LevelsOfInput(params)
           /\ input_data' = [input_data EXCEPT !.rows = Append(@, row)]
    /\ UNCHANGED <<agg_pc, params, statistic, derived_name_to_values, all_series,
                   out_frame, series_ind, stat_pos, series_pos, series_to_distrib,
                   agg_done, agg_error, agg_output, random_state>>
    /\ UNCHANGED <<eeVars, statsVars, arrVars>>

\* calculate_value_and_ci up to the loop over the statistics
AggStart ==
    /\ agg_pc = "read"
    /\ LET equalized ==
               IF ~Empty(input_data) /\ parse_bool(params.event_equal)
               THEN perform_event_equalization(params, input_data)
               ELSE [raised |-> FALSE, data |-> input_data]
       IN IF equalized.raised
          THEN /\ agg_pc' = "raised"
               /\ agg_error' = [error |-> "KeyError", where |-> "event_equalize"]
               /\ UNCHANGED <<input_data, statistic, derived_name_to_values,
                              all_series, out_frame, stat_pos, series_pos>>
          ELSE /\ input_data' = equalized.data
               /\ agg_error' = agg_error
               /\ IF Empty(equalized.data)
                  THEN /\ agg_pc' = "write"
                       /\ UNCHANGED <<statistic, derived_name_to_values, all_series,
                                      out_frame, stat_pos, series_pos>>
                  ELSE /\ all_series' = AllSeries(params)
                       /\ derived_name_to_values' =
                              IF params.derived_series # <<>>
                              THEN derived_names_after(params, derived_name_to_values)
                              ELSE derived_name_to_values
                       /\ out_frame' = init_out_frame(AllSeries(params))
                       /\ IF params.list_stat = <<>> \/ AllSeries(params) = <<>>
                          THEN /\ agg_pc' = "write"
                               /\ UNCHANGED <<statistic, stat_pos, series_pos>>
                          ELSE /\ agg_pc' = "loop"
                               /\ stat_pos' = 1
                               /\ series_pos' = 1
                               /\ statistic' = Lower(params.list_stat[1])
    /\ random_state' = IF ~Empty(input_data)
                       THEN seed_if_configured(params, random_state)
                       ELSE random_state
    /\ UNCHANGED <<params, series_ind, series_to_distrib, agg_done, agg_output>>
    /\ UNCHANGED <<eeVars, statsVars, arrVars>>

\* the end of one turn of the loop over all_series: the results are written at
\* series_ind, series_ind is counted up and the loops move on. A write at a
\* position the frame does not have either raises or is lost.
StoreAndAdvance(series, results, n_stats, distributions, components) ==
    /\ agg_done' = Append(agg_done,
                          [statistic |-> statistic, series |-> series,
                           position |-> series_ind, results |-> results,
                           n_stats |-> n_stats, components |-> components,
                           drawn |-> random_state])
    /\ random_state' = IF Resampled(results) THEN DrawnFrom(random_state)
                       ELSE random_state
    /\ \/ /\ series_ind < Len(out_frame)
          /\ out_frame' = [out_frame EXCEPT ![series_ind + 1] =
                              [@ EXCEPT !.stat_value = results.value,
                                        !.stat_bcl = results.lower_bound,
                                        !.stat_bcu = results.upper_bound,
                                        !.nstats = <<n_stats>>]]
          /\ agg_error' = agg_error
       \/ /\ series_ind >= Len(out_frame)
          /\ out_frame' = out_frame
          /\ agg_error' \in {agg_error,
                             [error |-> "ValueError", where |-> "out_frame"]}
    /\ series_ind' = series_ind + 1
    /\ IF agg_error' # NoError
       THEN /\ agg_pc' = "raised"
            /\ series_to_distrib' = distributions
            /\ UNCHANGED <<statistic, stat_pos, series_pos>>
       ELSE IF series_pos < Len(all_series)
       THEN /\ series_pos' = series_pos + 1
            /\ series_to_distrib' = distributions
            /\ UNCHANGED <<agg_pc, statistic, stat_pos>>
       ELSE IF stat_pos < Len(params.list_stat)
       THEN /\ stat_pos' = stat_pos + 1
            /\ series_pos' = 1
            /\ statistic' = Lower(params.list_stat[stat_pos + 1])
            /\ series_to_distrib' = <<>>
            /\ UNCHANGED agg_pc
       ELSE /\ agg_pc' = "write"
            /\ series_to_distrib' = distributions
            /\ UNCHANGED <<statistic, stat_pos, series_pos>>

\* an exception leaves the loop
Abort(outcome) ==
    /\ agg_pc' = "raised"
    /\ agg_error' = [error |-> outcome.error, where |-> outcome.where]
    /\ UNCHANGED <<statistic, out_frame, series_ind, stat_pos, series_pos,
                   series_to_distrib, agg_done, random_state>>

\* one turn of the loop for a series that is not derived
AggBaseSeries ==
    /\ agg_pc = "loop"
    /\ ~is_derived_series(all_series[series_pos])
    /\ LET series == all_series[series_pos]
           series_data == SeriesData(params, input_data, series)
           outcome == get_bootstrapped_stats(params, statistic, series_data)
       IN IF outcome.raised
          THEN Abort(outcome)
          ELSE StoreAndAdvance(series, outcome.results, Len(series_data.rows),
                               DictSet(series_to_distrib, series, outcome.results),
                               <<>>)
    /\ UNCHANGED <<params, input_data, derived_name_to_values, all_series, agg_output>>
    /\ UNCHANGED <<eeVars, statsVars, arrVars>>

\* one turn of the loop for a derived series
AggDerivedSeries ==
    /\ agg_pc = "loop"
    /\ is_derived_series(all_series[series_pos])
    /\ LET series == all_series[series_pos]
           outcome == get_bootstrapped_stats_for_derived(
                          params, statistic, derived_name_to_values, series,
                          series_to_distrib)
       IN IF outcome.raised
          THEN Abort(outcome)
          ELSE StoreAndAdvance(series, outcome.results, 0, series_to_distrib,
                               ComponentsFound(derived_name_to_values, series,
                                               series_to_distrib))
    /\ UNCHANGED <<params, input_data, derived_name_to_values, all_series, agg_output>>
    /\ UNCHANGED <<eeVars, statsVars, arrVars>>

\* out_frame.to_csv(agg_stat_output)
AggWrite ==
    /\ agg_pc = "write"
    /\ agg_pc' = "written"
    /\ agg_output' = <<out_frame>>
    /\ UNCHANGED <<params, input_data, statistic, derived_name_to_values, all_series,
                   out_frame, series_ind, stat_pos, series_pos, series_to_distrib,
                   agg_done, agg_error, random_state>>
    /\ UNCHANGED <<eeVars, statsVars, arrVars>>

(***************************************************************************)
(* Callers of event_equalize                                               *)
(***************************************************************************)
SeriesVarVals == {
    << <<"model", Lst(<<"A">>)>> >>,
    << <<"model", Lst(<<"A", "B">>)>> >>,
    << <<"model", Lst(<<"A,B">>)>> >> }

FixedVars == {
    [fix_vars |-> Lst(<<>>), fix_vals_permuted |-> <<>>],
    [fix_vars |-> Lst(<<"level">>), fix_vals_permuted |-> <<Lst(<<"X">>)>>],
    [fix_vars |-> Str("level"), fix_vals_permuted |-> <<Lst(<<"X", "Y">>)>>],
    [fix_vars |-> Lst(<<"level">>), fix_vals_permuted |-> <<Str("X")>>],
    [fix_vars |-> Lst(<<"fcst_lead">>), fix_vals_permuted |-> <<Lst(<<"12">>)>>] }

IndyVars == {"", "fcst_lead", "level"}

EEConfigs ==
    {[indy_var |-> iv, equalize_by_indep |-> eq, series_var_vals |-> sv,
      fix_vars |-> fx.fix_vars, fix_vals_permuted |-> fx.fix_vals_permuted] :
        iv \in IndyVars, eq \in BOOLEAN, sv \in SeriesVarVals, fx \in FixedVars}

EEInit ==
    /\ ee_pc = "input"
    /\ ee_cfg \in EEConfigs
    /\ \E tcol \in TemporalColumns :
           ee_in = [columns |-> {tcol, "fcst_lead", "model", "level"},
                    has_equalize |-> FALSE, equalize |-> <<>>, rows |-> <<>>]
    /\ ee_out = NoFrame
    /\ ee_reported = <<>>
    /\ ee_detected = FALSE
    /\ ee_out2 = NoFrame
    /\ StatsIdle
    /\ ArrIdle
    /\ agg_pc = "idle"
    /\ params = NoValue
    /\ input_data = NoFrame
    /\ AggIdle

\* the caller reads one more record into the frame
EEAddRow ==
    /\ ee_pc = "input"
    /\ Len(ee_in.rows) < MaxRows
    /\ \E row \in EERows : ee_in' = [ee_in EXCEPT !.rows = Append(@, row)]
    /\ UNCHANGED <<ee_pc, ee_cfg, ee_out, ee_reported, ee_detected, ee_out2>>
    /\ UNCHANGED <<aggVars, statsVars, arrVars>>

\* event_equalize(series_data, ...)
EECall ==
    /\ ee_pc = "input"
    /\ ee_in' = EEMutated(ee_in, ee_cfg)
    /\ IF EERaises(ee_in, ee_cfg)
       THEN /\ ee_pc' = "raised"
            /\ UNCHANGED <<ee_out, ee_reported, ee_detected>>
       ELSE /\ ee_pc' = "returned"
            /\ ee_out' = event_equalize(ee_in, ee_cfg)
            /\ ee_reported' = EEReport(ee_in, event_equalize(ee_in, ee_cfg))
            /\ \E multi \in BOOLEAN :
                   ee_detected' = DetectsNonUnique(EEMutated(ee_in, ee_cfg), ee_cfg, multi)
    /\ UNCHANGED <<ee_cfg, ee_out2>>
    /\ UNCHANGED <<aggVars, statsVars, arrVars>>

\* event_equalize applied to its own output
EEReapply ==
    /\ ee_pc = "returned"
    /\ IF EERaises(ee_out, ee_cfg)
       THEN /\ ee_pc' = "reraised"
            /\ UNCHANGED ee_out2
       ELSE /\ ee_pc' = "reapplied"
            /\ ee_out2' = event_equalize(ee_out, ee_cfg)
    /\ UNCHANGED <<ee_cfg, ee_in, ee_out, ee_reported, ee_detected>>
    /\ UNCHANGED <<aggVars, statsVars, arrVars>>

EENext == EEAddRow \/ EECall \/ EEReapply

SpecEE == EEInit /\ [][EENext]_vars

(***************************************************************************)
(* The AggStat run                                                         *)
(***************************************************************************)
Init ==
    /\ AggInit
    /\ ee_pc = "idle"
    /\ ee_cfg = NoValue
    /\ ee_in = NoFrame
    /\ ee_out = NoFrame
    /\ ee_reported = <<>>
    /\ ee_detected = FALSE
    /\ ee_out2 = NoFrame
    /\ StatsIdle
    /\ ArrIdle

Next == AggReadRow \/ AggStart \/ AggBaseSeries \/ AggDerivedSeries \/ AggWrite

Spec == Init /\ [][Next]_vars

(***************************************************************************)
(* The AggStat run when a value of the independent variable is also a      *)
(* value of the series variable                                            *)
(***************************************************************************)
LookupParams ==
    {[ParamsOf("ctc", <<"FBAR">>, ni, ds, "False") EXCEPT !.indy_vals = <<"X", "A">>] :
        ni \in {1, 2}, ds \in {<<DerivedAB>>, <<DerivedBA>>}}

LookupInit ==
    /\ agg_pc = "read"
    /\ params \in LookupParams
    /\ input_data = [columns |-> {"fcst_valid"} \cup AggColumns,
                     has_equalize |-> FALSE, equalize |-> <<>>, rows |-> <<>>]
    /\ AggIdle
    /\ ee_pc = "idle"
    /\ ee_cfg = NoValue
    /\ ee_in = NoFrame
    /\ ee_out = NoFrame
    /\ ee_reported = <<>>
    /\ ee_detected = FALSE
    /\ ee_out2 = NoFrame
    /\ StatsIdle
    /\ ArrIdle

SpecLookup == LookupInit /\ [][Next]_vars

(***************************************************************************)
(* The AggStat run for other parameter files                               *)
(***************************************************************************)
\* an AggStat object made from one of the parameter files
RunOf(parameter_files) ==
    /\ agg_pc = "read"
    /\ params \in parameter_files
    /\ input_data = [columns |-> {"fcst_valid"} \cup AggColumns,
                     has_equalize |-> FALSE, equalize |-> <<>>, rows |-> <<>>]
    /\ AggIdle
    /\ ee_pc = "idle"
    /\ ee_cfg = NoValue
    /\ ee_in = NoFrame
    /\ ee_out = NoFrame
    /\ ee_reported = <<>>
    /\ ee_detected = FALSE
    /\ ee_out2 = NoFrame
    /\ StatsIdle
    /\ ArrIdle

\* event equalization of two statistics of one model
EqualizeParams ==
    {[ParamsOf(lt, <<"FBAR", "OBAR">>, ni, ds, "True")
         EXCEPT !.series_val = << <<"model", <<"A">> >> >>] :
        lt \in {"ctc", "sl1l2"}, ni \in {1, 2}, ds \in {<<>>, <<DerivedAA>>}}

SpecEqualize == RunOf(EqualizeParams) /\ [][Next]_vars

\* levels that are written as integers next to one that is not
SelectParams ==
    {[ParamsOf(lt, <<"FBAR">>, ni, ds, "False") EXCEPT !.indy_vals = <<"500", "P500">>] :
        lt \in {"ctc", "sl1l2"}, ni \in {1, 2}, ds \in {<<>>, <<DerivedAB>>}}

SpecSelect == RunOf(SelectParams) /\ [][Next]_vars

(***************************************************************************)
(* _calc_stats_derived called on the arrays of two components              *)
(***************************************************************************)
MaxArrayColumns == 2

\* the numbers of iterations that the parameter files of the model ask for
NumIterations == {1, 2}

\* the records that a component can retain
ArrayRecords == {1, 2}

\* the row of a record in the array of the first (1) or second (2) component:
\* every cell tells its component, its record and its column
RowOfArray(component, record, width) ==
    [column \in 1..width |-> 100 * component + 10 * record + column]

\* the rows of an array at the drawn positions
ResampleOf(array, positions) == [k \in 1..Len(positions) |-> array[positions[k]]]

\* two components that retained nothing yet
ArrInit ==
    /\ arr_pc = "retain"
    /\ arr_first = <<>>
    /\ arr_second = <<>>
    /\ arr_operation \in {"DIFF", "RATIO"}
    /\ arr_draws = <<>>
    /\ arr_stats = <<>>
    /\ agg_pc = "idle"
    /\ params = NoValue
    /\ input_data = NoFrame
    /\ AggIdle
    /\ ee_pc = "idle"
    /\ ee_cfg = NoValue
    /\ ee_in = NoFrame
    /\ ee_out = NoFrame
    /\ ee_reported = <<>>
    /\ ee_detected = FALSE
    /\ ee_out2 = NoFrame
    /\ StatsIdle

\* both components retain one more row; the arrays have the columns of the
\* same input table
ArrRetainRow ==
    /\ arr_pc = "retain"
    /\ Len(arr_first) < MaxAggRows
    /\ \E width \in 1..MaxArrayColumns :
           /\ arr_first # <<>> => width = Len(arr_first[1])
           /\ \E record_1 \in ArrayRecords, record_2 \in ArrayRecords :
                  /\ arr_first' = Append(arr_first, RowOfArray(1, record_1, width))
                  /\ arr_second' = Append(arr_second, RowOfArray(2, record_2, width))
    /\ UNCHANGED <<arr_pc, arr_operation, arr_draws, arr_stats>>
    /\ UNCHANGED <<eeVars, aggVars, statsVars>>

\* bootstrap_and_value draws the row positions of one more resample
ArrDraw ==
    /\ arr_pc \in {"retain", "draw"}
    /\ arr_first # <<>>
    /\ \E num_iterations \in NumIterations : Len(arr_draws) < num_iterations
    /\ arr_pc' = "draw"
    /\ \E positions \in [1..Len(arr_first) -> 1..Len(arr_first)] :
           arr_draws' = Append(arr_draws, positions)
    /\ UNCHANGED <<arr_first, arr_second, arr_operation, arr_stats>>
    /\ UNCHANGED <<eeVars, aggVars, statsVars>>

\* _calc_stats_derived is called with the joined array and with the resamples
\* of it
ArrCall ==
    /\ arr_pc \in {"retain", "draw"}
    /\ arr_first # <<>>
    /\ arr_pc' = "called"
    /\ \E stat \in {"fbar", "obar"} :
           LET both_arrays == values_both_arrays(arr_first, arr_second,
                                                 arr_operation)
               blocks == [b \in 1..Len(arr_draws) |->
                             ResampleOf(both_arrays, arr_draws[b])]
           IN arr_stats' = <<[statistic |-> stat,
                              single |-> calc_stats_derived_2d(stat, both_arrays),
                              resampled |-> calc_stats_derived_3d(stat, blocks)]>>
    /\ UNCHANGED <<arr_first, arr_second, arr_operation, arr_draws>>
    /\ UNCHANGED <<eeVars, aggVars, statsVars>>

ArrNext == ArrRetainRow \/ ArrDraw \/ ArrCall

SpecArrays == ArrInit /\ [][ArrNext]_vars

\* parameter files that ask for the bias-adjusted Gilbert skill score, under
\* the name of its entry in STATISTIC_TO_FIELDS and under that of its function
DispatchParams ==
    {ParamsOf(lt, ls, ni, ds, "False") :
        lt \in {"ctc", "sl1l2"}, ls \in {<<"BAGGS">>, <<"BAGSS">>, <<"FBAR">>},
        ni \in {1, 2}, ds \in {<<>>, <<DerivedAB>>}}

SpecDispatch == RunOf(DispatchParams) /\ [][Next]_vars

\* parameter files that ask for two statistics
TwoStatisticsParams ==
    {ParamsOf(lt, <<"FBAR", "OBAR">>, ni, ds, "False") :
        lt \in {"ctc", "sl1l2"}, ni \in {1, 2}, ds \in {<<>>, <<DerivedAB>>}}

SpecTwoStatistics == RunOf(TwoStatisticsParams) /\ [][Next]_vars

\* parameter files with and without a random seed
SeedParams ==
    {[ParamsOf("ctc", <<"FBAR">>, ni, ds, "False") EXCEPT !.random_seed = seed] :
        ni \in {1, 2}, ds \in {<<>>, <<DerivedAB>>}, seed \in {<<>>, <<7>>}}

SpecSeed == RunOf(SeedParams) /\ [][Next]_vars

(***************************************************************************)
(* _validate_series_cases_for_derived_operation on its own                 *)
(***************************************************************************)
ValStatNames == {"FBAR", "SSVAR_RMSE"}

ValRows == [tkey : Times, fcst_lead : Leads, model : Models, level : {"X"},
            stat_name : ValStatNames, fcst_var : {"TMP"},
            total : {2}, fbar : {3}, obar : {5},
            fy_oy : {7}, fy_on : {11}, fn_on : {13}, fn_oy : {17}]

ValParams ==
    {ParamsOf("ctc", ls, 1, <<DerivedAB>>, "False") :
        ls \in {<<"FBAR">>, <<"SSVAR_RMSE">>, <<"SSVAR_Spread">>,
                <<"FBAR", "SSVAR_RMSE">>}}

\* the object while the loop over list_stat is at some statistic; input_data
\* holds the retained data of a component
ValInit ==
    /\ agg_pc = "retained"
    /\ params \in ValParams
    /\ \E tcol \in AggTemporalColumns :
           input_data = [columns |-> {tcol} \cup AggColumns,
                         has_equalize |-> FALSE, equalize |-> <<>>, rows |-> <<>>]
    /\ stat_pos \in 1..Len(params.list_stat)
    /\ statistic = Lower(params.list_stat[stat_pos])
    /\ derived_name_to_values = <<>>
    /\ all_series = <<>>
    /\ out_frame = <<>>
    /\ series_ind = 0
    /\ series_pos = 0
    /\ series_to_distrib = <<>>
    /\ agg_done = <<>>
    /\ agg_error = NoError
    /\ agg_output = <<>>
    /\ random_state = NotSeeded
    /\ ee_pc = "idle"
    /\ ee_cfg = NoValue
    /\ ee_in = NoFrame
    /\ ee_out = NoFrame
    /\ ee_reported = <<>>
    /\ ee_detected = FALSE
    /\ ee_out2 = NoFrame
    /\ StatsIdle
    /\ ArrIdle

\* the retained data gets one more row
ValAddRow ==
    /\ agg_pc = "retained"
    /\ Len(input_data.rows) < MaxAggRows
    /\ \E row \in ValRows : input_data' = [input_data EXCEPT !.rows = Append(@, row)]
    /\ UNCHANGED <<agg_pc, params, statistic, derived_name_to_values, all_series,
                   out_frame, series_ind, stat_pos, series_pos, series_to_distrib,
                   agg_done, agg_error, agg_output, random_state>>
    /\ UNCHANGED <<eeVars, statsVars, arrVars>>

\* self._validate_series_cases_for_derived_operation(values)
ValCall ==
    /\ agg_pc = "retained"
    /\ input_data.rows # <<>>
    /\ IF ValidationRaises(Lst(params.list_stat), input_data.rows)
       THEN /\ agg_pc' = "raised"
            /\ agg_error' = [error |-> "NameError", where |-> "validation"]
       ELSE /\ agg_pc' = "validated"
            /\ agg_error' = agg_error
    /\ UNCHANGED <<params, input_data, statistic, derived_name_to_values, all_series,
                   out_frame, series_ind, stat_pos, series_pos, series_to_distrib,
                   agg_done, agg_output, random_state>>
    /\ UNCHANGED <<eeVars, statsVars, arrVars>>

ValNext == ValAddRow \/ ValCall

SpecValidate == ValInit /\ [][ValNext]_vars

(***************************************************************************)
(* Properties of AggStat                                                   *)
(***************************************************************************)
\* the turns of the loop that wrote at position r
WritesAt(r) == {i \in 1..Len(agg_done) : agg_done[i].position = r}

\* C1: after calculate_value_and_ci on a non-empty table, whatever the number
\* of requested statistics, no write targets a position at or beyond the number
\* of rows of the output table, and the written table has one row per generated
\* series tuple, each written exactly once with the value, bounds and count
\* computed for that tuple.
C1_OneRowPerSeriesWrittenOnce ==
    /\ \A i \in 1..Len(agg_done) : agg_done[i].position < Len(out_frame)
    /\ (agg_pc = "written" /\ all_series # <<>>) =>
           /\ Len(agg_output[1]) = Len(all_series)
           /\ \A r \in 1..Len(all_series) :
                  /\ Cardinality(WritesAt(r - 1)) = 1
                  /\ \A i \in WritesAt(r - 1) :
                         /\ agg_done[i].series = all_series[r]
                         /\ agg_output[1][r].series = all_series[r]
                         /\ agg_output[1][r].stat_value = agg_done[i].results.value
                         /\ agg_output[1][r].stat_bcl = agg_done[i].results.lower_bound
                         /\ agg_output[1][r].stat_bcu = agg_done[i].results.upper_bound
                         /\ agg_output[1][r].nstats = <<agg_done[i].n_stats>>

\* C2: for every num_iterations and every line type, a statistic without a
\* registered formula gives the series an all-None result and the run goes on:
\* no exception from the statistic lookup leaves calculate_value_and_ci.
C2_UnknownStatisticNeverRaises ==
    ~(agg_pc = "raised" /\ agg_error.where \in {"_calc_stats", "_prepare_sl1l2_data"})

\* C3: a derived series that fails (component not found among the stored
\* distributions, or the duplicate-case validation raises) aborts only that
\* derived series: the run is not left by that failure.
C3_DerivedFailureAbortsOnlyThatSeries ==
    ~(agg_pc = "raised" /\ agg_error.where \in {"component lookup", "validation"})

\* two rows of the retained data share (temporal key, lead time, statistic name)
HasDuplicateTriplet(rows) ==
    \E i, j \in 1..Len(rows) :
        /\ i # j
        /\ rows[i].tkey = rows[j].tkey
        /\ rows[i].fcst_lead = rows[j].fcst_lead
        /\ rows[i].stat_name = rows[j].stat_name

\* C4: the validation raises if and only if the retained data has two rows
\* with the same (temporal key, lead time, statistic name) and the statistic
\* being computed is not one of SSVAR_Spread, SSVAR_RMSE.
C4_RaisesIffDuplicateAndNotExempt ==
    agg_pc \in {"validated", "raised"} =>
        ((agg_pc = "raised") <=>
            (/\ HasDuplicateTriplet(input_data.rows)
             /\ params.list_stat[stat_pos] \notin EXEMPTED_VARS))

\* the synthetic tuples of every configured derived-series spec, in order
TuplesOfEverySpec(p) ==
    Concat([n \in 1..Len(p.derived_series) |->
               LET d == derived_val(p, p.derived_series[n])
               IN Product([i \in 1..Len(d) |-> d[i][2]])])

\* C5: with N derived-series specs the series list holds, after the base
\* tuples, the synthetic tuples of every one of the N specs, and the
\* derived-name map has an entry for each of the N specs.
C5_EveryDerivedSpecResolved ==
    all_series # <<>> =>
        /\ all_series = BaseSeries(params) \o TuplesOfEverySpec(params)
        /\ \A n \in 1..Len(params.derived_series) :
               DictHas(derived_name_to_values,
                       get_derived_curve_name(params.derived_series[n]))

(***************************************************************************)
(* Properties of the pre-aggregation scaling                               *)
(***************************************************************************)
\* the columns that some statistic's field list names
AggregateColumns == {"fbar", "obar", "fy_oy", "fy_on", "fn_on"}

Column(row, column) ==
    CASE column = "fbar" -> row.fbar
      [] column = "obar" -> row.obar
      [] column = "fy_oy" -> row.fy_oy
      [] column = "fy_on" -> row.fy_on
      [] column = "fn_on" -> row.fn_on

RECURSIVE Power(_, _)
Power(base, n) == IF n = 0 THEN 1 ELSE base * Power(base, n - 1)

\* how often the field list of a statistic names a column
Listings(stat, column) ==
    Cardinality({i \in 1..Len(STATISTIC_TO_FIELDS[stat]) :
                    STATISTIC_TO_FIELDS[stat][i] = column})

\* the turns of the loop that evaluated a statistic function
Evaluated == {i \in 1..Len(agg_done) : agg_done[i].results.value.kind = "stat"}

\* the rows of the shared input table that belong to the series of turn i,
\* in sorted order
RowsOfTurn(i) == sort_data(SeriesData(params, input_data, agg_done[i].series)).rows

\* how often a column is to be multiplied: never, once per entry of the field
\* list that names it, or once if the field list names it
Multiplications(rule, stat, column) ==
    CASE rule = "never" -> 0
      [] rule = "per entry" -> Listings(stat, column)
      [] rule = "once" -> IF Listings(stat, column) > 0 THEN 1 ELSE 0

\* in turn i every aggregate column was multiplied by the row's total as many
\* times as the rule says
ScaledBy(i, rule) ==
    LET data == agg_done[i].results.value.data
        rows == RowsOfTurn(i)
    IN /\ Len(data) = Len(rows)
       /\ \A k \in 1..Len(rows) : \A c \in AggregateColumns :
              Column(data[k], c) =
                  Column(rows[k], c)
                      * Power(rows[k].total,
                              Multiplications(rule, agg_done[i].results.value.stat, c))

\* C11 (as amended): the scaling is selected by line type: for sl1l2 every
\* column is multiplied by the row's total once per entry of the statistic's
\* field list that names it, and for ctc no column is scaled.
C11_ScalingByLineType ==
    \A i \in Evaluated :
        /\ params.line_type = "sl1l2" =>
               ScaledBy(i, "per entry")
        /\ params.line_type = "ctc" => ScaledBy(i, "never")

C11_Witness ==
    /\ params.line_type = "sl1l2"
    /\ \E i \in Evaluated : agg_done[i].results.value.data # <<>>

\* C11 (as stated): for ctc the columns the statistic needs are multiplied by
\* the row's total, and for sl1l2 no column is scaled.
C11_ScalingForContingencyOnly ==
    \A i \in Evaluated :
        /\ params.line_type = "ctc" =>
               ScaledBy(i, "once")
        /\ params.line_type = "sl1l2" => ScaledBy(i, "never")

\* C12: where columns are scaled, each column the statistic needs is multiplied
\* by the row's total exactly once before the statistic is evaluated (not twice
\* for a column the field list names twice), for every series and statistic of
\* the run, and the shared input table stays unscaled.
C12_ScaledExactlyOnce ==
    /\ \A k \in 1..Len(input_data.rows) : input_data.rows[k] \in AggRows
    /\ params.line_type = "sl1l2" => \A i \in Evaluated : ScaledBy(i, "once")

(***************************************************************************)
(* Properties of _get_bootstrapped_stats                                   *)
(***************************************************************************)
\* the turns of the loop for a series that is not derived
BaseTurns == {i \in 1..Len(agg_done) : ~is_derived_series(agg_done[i].series)}

\* the turns for a series that has rows in the input table, and for one that
\* has none
TurnsWithRows == {i \in BaseTurns : RowsOfTurn(i) # <<>>}
TurnsWithoutRows == {i \in BaseTurns : RowsOfTurn(i) = <<>>}

\* the data of turn i is the sorted table of the series, scaled as the line
\* type says
FullSeriesTable(i) ==
    LET data == agg_done[i].results.value.data
    IN /\ Len(data) = Len(RowsOfTurn(i))
       /\ \A k \in 1..Len(data) :
              /\ data[k].tkey = RowsOfTurn(i)[k].tkey
              /\ data[k].fcst_lead = RowsOfTurn(i)[k].fcst_lead
              /\ data[k].total = RowsOfTurn(i)[k].total
       /\ ScaledBy(i, IF params.line_type = "sl1l2" THEN "per entry" ELSE "never")

\* C17: with num_iterations = 1 nothing is resampled: both bounds are None, the
\* value is the statistic applied once to the full sorted and pre-scaled table
\* of the series, and the retained original data are attached exactly when a
\* derived series is configured.
C17_SingleIterationEvaluatesOnce ==
    params.num_iterations = 1 =>
        \A i \in TurnsWithRows :
            LET results == agg_done[i].results
            IN /\ results.lower_bound = NoneValue
               /\ results.upper_bound = NoneValue
               /\ results.value.kind = "stat"
               /\ results.value.stat = agg_done[i].statistic
               /\ FullSeriesTable(i)
               /\ results.has_values <=> params.derived_series # <<>>
               /\ results.has_values => results.values = results.value.data

\* a one-iteration run with a derived series evaluated a series of two rows
C17_Witness ==
    /\ params.num_iterations = 1
    /\ params.derived_series # <<>>
    /\ \E i \in TurnsWithRows :
           /\ Len(agg_done[i].results.value.data) = 2
           /\ agg_done[i].results.has_values

\* the AggStat method that raised
RaisedIn == IF agg_pc = "raised" THEN agg_error.where ELSE "nowhere"

\* C18: for a series whose filtered table is empty the value and both bounds
\* are None and nothing is retained, for any num_iterations and any statistic
\* name: the table is not sorted, scaled, evaluated or resampled, so none of
\* these steps raises for it.
C18_EmptyTableGivesNone ==
    /\ \A i \in TurnsWithoutRows : agg_done[i].results = NoneResults
    /\ (/\ RaisedIn \in {"_get_bootstrapped_stats", "_prepare_sl1l2_data",
                         "_calc_stats"}
        /\ ~is_derived_series(all_series[series_pos])) =>
           ~Empty(SeriesData(params, input_data, all_series[series_pos]))

\* a series without rows was handled for a statistic that no field list and no
\* function is registered for, under the line type that scales
C18_Witness ==
    /\ params.line_type = "sl1l2"
    /\ \E i \in TurnsWithoutRows :
           /\ agg_done[i].statistic = "foo"
           /\ agg_done[i].results = NoneResults

\* the bounds that were computed by resampling
ComputedBounds ==
    {b \in UNION {{agg_done[i].results.lower_bound, agg_done[i].results.upper_bound} :
                     i \in 1..Len(agg_done)} : b.kind = "bound"}

\* C19: with num_iterations > 1 the confidence interval of every series, base
\* or derived, is computed at the configured alpha with the configured method.
C19_IntervalAtConfiguredAlpha ==
    params.num_iterations > 1 =>
        \A b \in ComputedBounds :
            /\ b.alpha = params.alpha
            /\ b.ci_method = params.method

(***************************************************************************)
(* Properties of the component lookup                                      *)
(***************************************************************************)
\* the turns of the loop for a derived series
DerivedTurns == {i \in 1..Len(agg_done) : is_derived_series(agg_done[i].series)}

\* the distributions dictionary when turn i began: the results of the earlier
\* turns of the same statistic for the series that are not derived, in the
\* order they were inserted
DistributionsOfTurn(i) ==
    LET earlier == SelectSeq([j \in 1..Len(agg_done) |-> j],
                             LAMBDA j : /\ j < i
                                        /\ j \in BaseTurns
                                        /\ agg_done[j].statistic = agg_done[i].statistic)
    IN [k \in 1..Len(earlier) |->
           <<agg_done[earlier[k]].series, agg_done[earlier[k]].results>>]

\* the positions of the tuples whose values are all in the candidate set
Matching(distributions, permute) ==
    {k \in 1..Len(distributions) : AllIn(distributions[k][1], permute)}

\* the first tuple in insertion order whose values are all in the candidate set
FirstMatch(distributions, permute) ==
    IF Matching(distributions, permute) = {} THEN NotFound
    ELSE LET k == CHOOSE m \in Matching(distributions, permute) :
                      \A n \in Matching(distributions, permute) : m <= n
         IN Found(distributions[k][1], distributions[k][2])

\* C20: for each of the two components of a derived series the combiner uses
\* the distribution of the first tuple in insertion order whose values are all
\* in the component's candidate set; a later matching tuple is never used.
C20_FirstMatchingTupleUsed ==
    \A i \in DerivedTurns :
        LET series == agg_done[i].series
            permute == permute_for_series(DictGet(derived_name_to_values, series[1]),
                                          series)
        IN /\ agg_done[i].components[1] =
                  FirstMatch(DistributionsOfTurn(i), permute[1])
           /\ agg_done[i].components[2] =
                  FirstMatch(DistributionsOfTurn(i), permute[2])

(***************************************************************************)
(* Properties of the derived-series combiner                               *)
(***************************************************************************)
\* the retained original data of a distribution is None or has size 0
NothingRetained(results) == ~results.has_values \/ results.values = <<>>

\* the derived turns whose two components were both matched
MatchedTurns ==
    {i \in DerivedTurns : /\ agg_done[i].components[1].found
                          /\ agg_done[i].components[2].found}

\* the components of the derived series the loop is at
ComponentsAtHand ==
    ComponentsFound(derived_name_to_values, all_series[series_pos], series_to_distrib)

\* C21: when the retained original data of either matched component is None
\* or empty, the combiner returns value and both bounds None; validation, the
\* operator and the resampling do not run for it, so none of them raises.
C21_NothingRetainedGivesNone ==
    /\ \A i \in MatchedTurns :
           (\/ NothingRetained(agg_done[i].components[1].results)
            \/ NothingRetained(agg_done[i].components[2].results)) =>
               agg_done[i].results = NoneResults
    /\ (/\ RaisedIn \in {"validation", "np.concatenate"}
        /\ is_derived_series(all_series[series_pos])) =>
           /\ ~NothingRetained(ComponentsAtHand[1].results)
           /\ ~NothingRetained(ComponentsAtHand[2].results)

\* a derived series was combined from a component that has rows and one that
\* has none
C21_Witness ==
    \E i \in MatchedTurns :
        /\ ~NothingRetained(agg_done[i].components[1].results)
        /\ NothingRetained(agg_done[i].components[2].results)
        /\ agg_done[i].results = NoneResults

\* the candidate sets of the derived series of turn i
PermuteOfTurn(i) ==
    permute_for_series(DictGet(derived_name_to_values, agg_done[i].series[1]),
                       agg_done[i].series)

\* the distribution of a component of the derived series of turn i: that of
\* the first series whose values are all in the component's candidate set
ComponentOfTurn(i, n) ==
    FirstMatch(DistributionsOfTurn(i), PermuteOfTurn(i)[n]).results

\* the derived turns whose two components both retained data
CombinedTurns ==
    {i \in DerivedTurns : /\ ~NothingRetained(ComponentOfTurn(i, 1))
                          /\ ~NothingRetained(ComponentOfTurn(i, 2))}

\* a difference of an estimate and itself
ZeroDifference(value) ==
    /\ value.kind = "derived"
    /\ value.operation = "DIFF"
    /\ value.first = value.second

\* C22: with num_iterations = 1 the derived value is the operator applied to
\* the point estimates of the two components, both bounds are None and nothing
\* is retained or resampled; with DIFF and two identical component
\* distributions the value is the difference of an estimate and itself, 0.
C22_DerivedFromPointEstimates ==
    params.num_iterations = 1 =>
        \A i \in CombinedTurns :
            LET operation ==
                    DictGet(derived_name_to_values, agg_done[i].series[1]).derived_operation
                results == agg_done[i].results
            IN /\ results.lower_bound = NoneValue
               /\ results.upper_bound = NoneValue
               /\ ~results.has_values
               /\ results.value = DerivedValue(operation,
                                               ComponentOfTurn(i, 1).value,
                                               ComponentOfTurn(i, 2).value)
               /\ (operation = "DIFF" /\ ComponentOfTurn(i, 1) = ComponentOfTurn(i, 2)) =>
                      ZeroDifference(results.value)

\* one-iteration runs combined two different estimates, and an estimate with
\* itself
C22_Witness ==
    /\ params.num_iterations = 1
    /\ \E i \in CombinedTurns :
           /\ agg_done[i].results.value.kind = "derived"
           /\ \/ /\ params.derived_series = <<DerivedAB>>
                 /\ agg_done[i].results.value.first # agg_done[i].results.value.second
              \/ /\ params.derived_series = <<DerivedAA>>
                 /\ ZeroDifference(agg_done[i].results.value)

(***************************************************************************)
(* Properties of the order of the series                                   *)
(***************************************************************************)
\* the keys of a distribution map
KeysOf(distributions) == {distributions[k][1] : k \in 1..Len(distributions)}

\* the series of the run that are not derived
BaseSeriesOfRun == {all_series[k] : k \in {n \in 1..Len(all_series) :
                                              ~is_derived_series(all_series[n])}}

\* the distributions in the map were computed in the pass of the statistic
StoredForStatistic(distributions, stat) ==
    \A k \in 1..Len(distributions) :
        distributions[k][2].value.kind = "stat" =>
            distributions[k][2].value.stat = stat

\* C24: within the pass of one statistic a derived series is combined only
\* after the distribution of every base series, so of both of its components,
\* was stored in the distribution map in that same pass.
C24_DerivedAfterItsComponents ==
    /\ (agg_pc = "loop" /\ is_derived_series(all_series[series_pos])) =>
           /\ KeysOf(series_to_distrib) = BaseSeriesOfRun
           /\ StoredForStatistic(series_to_distrib, statistic)
    /\ \A i \in DerivedTurns :
           /\ KeysOf(DistributionsOfTurn(i)) = BaseSeriesOfRun
           /\ StoredForStatistic(DistributionsOfTurn(i), agg_done[i].statistic)
           /\ \A n \in 1..2 : agg_done[i].components[n].found =>
                  agg_done[i].components[n].key \in KeysOf(DistributionsOfTurn(i))

\* a derived series was combined in the pass of the second statistic
C24_Witness ==
    /\ Len(params.list_stat) = 2
    /\ \E i \in MatchedTurns :
           /\ agg_done[i].statistic = Lower(params.list_stat[2])
           /\ ~NothingRetained(agg_done[i].components[1].results)

\* the statistic a series tuple names: its last field
StatNameOf(series) == series[Len(series)]

\* C27: for every output row of a base series, also when more than one
\* statistic is requested, stat_value is the formula named by the row's own
\* stat_name applied to the rows of that series, never the formula of another
\* requested statistic.
C27_ValueOfOwnStatistic ==
    \A i \in BaseTurns :
        agg_done[i].results.value.kind = "stat" =>
            /\ agg_done[i].results.value.stat = Lower(StatNameOf(agg_done[i].series))
            /\ Len(agg_done[i].results.value.data) = Len(RowsOfTurn(i))

(***************************************************************************)
(* Properties of _perform_event_equalization                               *)
(***************************************************************************)
\* the rows event_equalize returns for group g of the input table
EqualizedRows(g) ==
    Range(event_equalize(series_data_for_ee(input_data, EEGroups(params)[g]),
                         EEArguments(params)).rows)

\* C28: after _perform_event_equalization the working input table holds the
\* equalized rows of every (forecast variable, statistic, series variable)
\* group, not only those of the first group with a non-empty result.
C28_EveryGroupKept ==
    [][(/\ agg_pc = "read"
        /\ agg_pc' \in {"loop", "write"}
        /\ ~Empty(input_data)
        /\ parse_bool(params.event_equal)) =>
           \A g \in 1..Len(EEGroups(params)) :
               EqualizedRows(g) \subseteq Range(input_data'.rows)]_vars

(***************************************************************************)
(* Properties of the selection of the rows of a series                     *)
(***************************************************************************)
\* the value of a row's column equals the tuple's value: as numbers when the
\* tuple's value is integer-like, as strings otherwise
ValueEquals(cell, value) ==
    IF value \in IntegerLike
    THEN cell \in IntegerLike /\ IntOf(cell) = IntOf(value)
    ELSE cell = value

\* the input rows that belong to a series tuple
RowsBelongingTo(series) ==
    {i \in 1..Len(input_data.rows) :
        \A k \in 1..Len(all_fields_values(params)) :
            ValueEquals(Cell(input_data, input_data.rows[i],
                             all_fields_values(params)[k][1]),
                        series[k])}

\* C26: the rows selected for a base series tuple are exactly the input rows
\* whose column value equals the tuple's value for every field of the tuple,
\* compared as numbers when the tuple's value is integer-like and as strings
\* otherwise.
C26_RowsOfSeriesSelected ==
    \A i \in BaseTurns :
        /\ agg_done[i].n_stats = Cardinality(RowsBelongingTo(agg_done[i].series))
        /\ agg_done[i].results.value.kind = "stat" =>
               \A k \in 1..Len(agg_done[i].results.value.data) :
                   \E r \in RowsBelongingTo(agg_done[i].series) :
                       /\ input_data.rows[r].tkey = agg_done[i].results.value.data[k].tkey
                       /\ input_data.rows[r].model = agg_done[i].results.value.data[k].model
                       /\ input_data.rows[r].level = agg_done[i].results.value.data[k].level

(***************************************************************************)
(* Properties of the joined array of a derived series                      *)
(***************************************************************************)
\* C23: for two retained matrices of the same number of columns, joined
\* column-wise with the operation column, _calc_stats_derived recovers the
\* columns of the first matrix as its first half and those of the second as
\* its second half, with the pairing of the rows unchanged, for the
\* two-dimensional table and for every block of a resample tensor, and it
\* returns one derived value per resample in the order of the resamples.
C23_SplitRecoversComponents ==
    arr_pc = "called" =>
        LET stat == arr_stats[1].statistic
        IN /\ arr_stats[1].single =
                  DerivedValue(arr_operation, StatValue(stat, arr_first),
                               StatValue(stat, arr_second))
           /\ Len(arr_stats[1].resampled) = Len(arr_draws)
           /\ \A b \in 1..Len(arr_draws) :
                  arr_stats[1].resampled[b] =
                      DerivedValue(arr_operation,
                                   StatValue(stat, ResampleOf(arr_first, arr_draws[b])),
                                   StatValue(stat, ResampleOf(arr_second, arr_draws[b])))

\* the call had two matrices of two different rows and two columns and two
\* different resamples, one of them not in the order of the rows
C23_Witness ==
    /\ arr_pc = "called"
    /\ Len(arr_first) = 2
    /\ Len(arr_first[1]) = 2
    /\ arr_first[1] # arr_first[2]
    /\ arr_second[1] # arr_second[2]
    /\ Len(arr_draws) = 2
    /\ arr_draws[1] # arr_draws[2]
    /\ arr_draws[1] = <<2, 1>>

\* the derived turns that were bootstrapped
BootstrappedDerivedTurns == {i \in DerivedTurns : Resampled(agg_done[i].results)}

\* the joined array of the derived series of turn i
BothArraysOfTurn(i) ==
    values_both_arrays(
        to_numpy(agg_done[i].components[1].results.values),
        to_numpy(agg_done[i].components[2].results.values),
        DictGet(derived_name_to_values, agg_done[i].series[1]).derived_operation)

\* the two halves of a row of the joined array are records of one case: the
\* same temporal key and the same lead time
JoinsOneCase(row) ==
    LET half == (Len(row) - 1) \div 2
    IN /\ row[1] = row[half + 1]
       /\ row[2] = row[half + 2]

\* C29: when a derived series is bootstrapped, every row of the joined array
\* joins records of the two components that have the same temporal key and
\* lead time, for any two components whose retained data passed validation.
C29_RowsJoinOneCase ==
    \A i \in BootstrappedDerivedTurns :
        \A k \in 1..Len(BothArraysOfTurn(i)) : JoinsOneCase(BothArraysOfTurn(i)[k])

(***************************************************************************)
(* Properties of the dispatch of the statistics                            *)
(***************************************************************************)
\* the statistics that AggStat lists: the keys of STATISTIC_TO_FIELDS and the
\* names of the statistic functions
ListedStatistics == (DOMAIN STATISTIC_TO_FIELDS) \cup StatisticFunctions

\* C30: every key of STATISTIC_TO_FIELDS resolves through calculate_<name> to
\* a defined function and every statistic function an sl1l2 run can dispatch
\* to has an entry in STATISTIC_TO_FIELDS, so no run for a listed statistic
\* ends in a lookup miss: none raises KeyError in _calc_stats or in
\* _prepare_sl1l2_data, and none gives None for a series that has rows.
C30_ListedStatisticsDispatch ==
    (/\ Len(params.list_stat) = 1
     /\ statistic \in ListedStatistics
     /\ params.line_type \in {"ctc", "sl1l2"}) =>
        /\ RaisedIn \notin {"_calc_stats", "_prepare_sl1l2_data"}
        /\ \A i \in TurnsWithRows : agg_done[i].results # NoneResults

(***************************************************************************)
(* Properties of the random seed                                           *)
(***************************************************************************)
\* the turns that resampled, base and derived
ResampledTurns == {i \in 1..Len(agg_done) : Resampled(agg_done[i].results)}

\* C25: a configured random seed is applied exactly once per run, before the
\* first resampling of any base or derived series: the n-th resampling of the
\* run draws from the generator as the seed and the n - 1 earlier resamplings
\* left it, so two runs on the same input with the same seed go through the
\* same draws.
C25_SeededOnceBeforeFirstDraw ==
    params.random_seed # <<>> =>
        /\ random_state.seedings <= 1
        /\ (agg_pc \in {"loop", "write", "written"} /\ ~Empty(input_data)) =>
               random_state.seedings = 1
        /\ \A i \in ResampledTurns :
               agg_done[i].drawn =
                   [seed |-> params.random_seed, seedings |-> 1,
                    draws |-> Cardinality({j \in ResampledTurns : j < i})]

\* a seeded run resampled a base series and then a derived series
C25_Witness ==
    /\ params.random_seed # <<>>
    /\ \E i \in ResampledTurns \cap DerivedTurns : agg_done[i].drawn.draws > 0

(***************************************************************************)
(* statistics.py: the statistic functions                                  *)
(* A table cell is <<>> (NaN) or <<n>>; a column sum is <<>> (None) or     *)
(* <<n>>. A rounded result is held in units of 10^-Decimals.               *)
(***************************************************************************)
\* the decimals of round_half_up(result, 5)
Decimals == 5
Scale == Power(10, Decimals)

\* what a call gives: a number, None, an exception, or a value that is not
\* finite (NaN, inf)
Number(units) == [kind |-> "number", units |-> units]
Formula(expr) == [kind |-> "number", expr |-> expr]
RaisedError(error) == [kind |-> "raised", error |-> error]
NonFinite == [kind |-> "non-finite"]
\* round_half_up(nan, 5): floor(nan) raises ValueError, or the NaN is passed on
RoundOfNaN == [kind |-> "round of NaN"]

Outcome(result, filters) == [result |-> result, filters |-> filters]

\* warnings.filterwarnings(action): the entry is put in front of the filters,
\* an equal entry further back is removed
filterwarnings(action, filters) ==
    <<action>> \o SelectSeq(filters, LAMBDA a : a # action)

\* a warning of numpy is raised as an exception when the first filter says so
WarningIsError(filters) == Head(filters) = "error"

\* round_half_up(num / den, 5) = floor(num / den * 10^5 + 0.5) / 10^5, in units
RoundHalfUp(num, den) ==
    IF den > 0 THEN (2 * num * Scale + den) \div (2 * den)
    ELSE (2 * (0 - num) * Scale + (0 - den)) \div (2 * (0 - den))

\* round_half_up of a value that is a whole number of units
RoundUnits(units) == (2 * units + 1) \div 2

\* round_half_up(u * u, 5) for u in units, without leaving 32 bits:
\* u = h * 1000 + l, u * u / 10^5 = 10 * h * h + (2000 * h * l + l * l) / 10^5
SquareRest(units) ==
    LET u == IF units < 0 THEN 0 - units ELSE units
        h == u \div 1000
        l == u % 1000
    IN [whole |-> 10 * h * h, rest |-> 2000 * h * l + l * l]

SquareUnits(units) ==
    SquareRest(units).whole + (2 * SquareRest(units).rest + Scale) \div (2 * Scale)

\* round_half_up(a - u * u, 5) for a and u in units
MinusSquareUnits(a, units) ==
    a - SquareRest(units).whole
      + (Scale - 2 * SquareRest(units).rest) \div (2 * Scale)

RECURSIVE SumCells(_, _, _)
SumCells(rows, column_name, n) ==
    IF n = 0 THEN 0 ELSE SumCells(rows, column_name, n - 1) + rows[n][column_name][1]

HasNaN(table, column_name) ==
    \E k \in 1..Len(table.rows) : table.rows[k][column_name] = <<>>

\* sum_column_data_by_name(input_data, columns, column_name)
sum_column_data_by_name(table, column_name) ==
    IF column_name \notin table.columns_names THEN <<>>
    ELSE IF HasNaN(table, column_name) THEN <<>>
    ELSE <<SumCells(table.rows, column_name, Len(table.rows))>>

\* some operand of an arithmetic expression is None: TypeError
SomeNone(sums) == \E i \in 1..Len(sums) : sums[i] = <<>>

\* the end of a function that did not return early: filterwarnings('ignore')
Finish(result, filters) == Outcome(result, filterwarnings("ignore", filters))

\* calculate_baser: the columns are looked up with np.where(...)[0][0], the
\* column data summed as they are
calculate_baser(table, filters) ==
    LET at_call == filterwarnings("error", filters)
        needed == {"fy_oy", "fn_oy", "total"}
    IN IF ~(needed \subseteq table.columns_names)
       THEN Outcome(RaisedError("IndexError"), at_call)
       ELSE LET total == SumCells(table.rows, "total", Len(table.rows))
                oy == SumCells(table.rows, "fy_oy", Len(table.rows))
                        + SumCells(table.rows, "fn_oy", Len(table.rows))
            IN IF HasNaN(table, "total")
               THEN Outcome(RoundOfNaN, at_call)
               ELSE IF total = 0 THEN Finish(NoneValue, at_call)
               ELSE IF HasNaN(table, "fy_oy") \/ HasNaN(table, "fn_oy")
               THEN Outcome(RoundOfNaN, at_call)
               ELSE Finish(Number(RoundHalfUp(oy, total)), at_call)

\* calculate_acc
calculate_acc(table, filters) ==
    LET at_call == filterwarnings("error", filters)
        fy_oy == sum_column_data_by_name(table, "fy_oy")
        fn_on == sum_column_data_by_name(table, "fn_on")
        total == sum_column_data_by_name(table, "total")
    IN IF SomeNone(<<fy_oy, fn_on, total>>) THEN Finish(NoneValue, at_call)
       ELSE IF total[1] = 0 /\ WarningIsError(at_call) THEN Finish(NoneValue, at_call)
       ELSE Finish(Number(RoundHalfUp(fy_oy[1] + fn_on[1], total[1])), at_call)

\* calculate_fbias: returns early, before filterwarnings('ignore'), for oy == 0
calculate_fbias(table, filters) ==
    LET at_call == filterwarnings("error", filters)
        fy_oy == sum_column_data_by_name(table, "fy_oy")
        fn_on == sum_column_data_by_name(table, "fn_on")
        fy_on == sum_column_data_by_name(table, "fy_on")
    IN IF SomeNone(<<fy_oy, fn_on>>) THEN Finish(NoneValue, at_call)
       ELSE IF fy_oy[1] + fn_on[1] = 0 THEN Outcome(NoneValue, at_call)
       ELSE IF fy_on = <<>> THEN Finish(NoneValue, at_call)
       ELSE Finish(Number(RoundHalfUp(fy_oy[1] + fy_on[1], fy_oy[1] + fn_on[1])),
                   at_call)

\* calculate_pody
calculate_pody(table, filters) ==
    LET at_call == filterwarnings("error", filters)
        fy_oy == sum_column_data_by_name(table, "fy_oy")
        fn_oy == sum_column_data_by_name(table, "fn_oy")
    IN IF SomeNone(<<fy_oy, fn_oy>>) THEN Finish(NoneValue, at_call)
       ELSE IF fy_oy[1] + fn_oy[1] = 0 /\ WarningIsError(at_call)
       THEN Finish(NoneValue, at_call)
       ELSE Finish(Number(RoundHalfUp(fy_oy[1], fy_oy[1] + fn_oy[1])), at_call)

\* calculate_pofd
calculate_pofd(table, filters) ==
    LET at_call == filterwarnings("error", filters)
        fy_on == sum_column_data_by_name(table, "fy_on")
        fn_on == sum_column_data_by_name(table, "fn_on")
    IN IF SomeNone(<<fy_on, fn_on>>) THEN Finish(NoneValue, at_call)
       ELSE IF fy_on[1] + fn_on[1] = 0 /\ WarningIsError(at_call)
       THEN Finish(NoneValue, at_call)
       ELSE Finish(Number(RoundHalfUp(fy_on[1], fy_on[1] + fn_on[1])), at_call)

\* calculate_gss: returns early, before filterwarnings('ignore'), for total == 0
calculate_gss(table, filters) ==
    LET at_call == filterwarnings("error", filters)
        total == sum_column_data_by_name(table, "total")
        fy_oy == sum_column_data_by_name(table, "fy_oy")
        fy_on == sum_column_data_by_name(table, "fy_on")
        fn_oy == sum_column_data_by_name(table, "fn_oy")
    IN IF total = <<0>> THEN Outcome(NoneValue, at_call)
       ELSE IF SomeNone(<<total, fy_oy, fy_on, fn_oy>>) THEN Finish(NoneValue, at_call)
       ELSE LET product == (fy_oy[1] + fy_on[1]) * (fy_oy[1] + fn_oy[1])
                num == fy_oy[1] * total[1] - product
                den == (fy_oy[1] + fy_on[1] + fn_oy[1]) * total[1] - product
            IN IF den = 0 /\ WarningIsError(at_call) THEN Finish(NoneValue, at_call)
               ELSE Finish(Number(RoundHalfUp(num, den)), at_call)

\* HK with the formula written out on the column sums
calculate_hk_from_sums(table, filters) ==
    LET at_call == filterwarnings("error", filters)
        fy_oy == sum_column_data_by_name(table, "fy_oy")
        fn_oy == sum_column_data_by_name(table, "fn_oy")
        fy_on == sum_column_data_by_name(table, "fy_on")
        fn_on == sum_column_data_by_name(table, "fn_on")
    IN IF SomeNone(<<fy_oy, fn_oy, fy_on, fn_on>>) THEN Finish(NoneValue, at_call)
       ELSE IF fy_oy[1] + fn_oy[1] = 0 \/ fy_on[1] + fn_on[1] = 0
       THEN Finish(NoneValue, at_call)
       ELSE Finish(Number(RoundHalfUp(
                       fy_oy[1] * (fy_on[1] + fn_on[1]) - fy_on[1] * (fy_oy[1] + fn_oy[1]),
                       (fy_oy[1] + fn_oy[1]) * (fy_on[1] + fn_on[1]))),
                   at_call)

\* calculate_hk: pody - pofd of the two composed calls
calculate_hk(table, filters) ==
    LET at_call == filterwarnings("error", filters)
        pody == calculate_pody(table, at_call)
        pofd == calculate_pofd(table, pody.filters)
    IN IF pody.result = NoneValue \/ pofd.result = NoneValue
       THEN Finish(NoneValue, pofd.filters)
       ELSE Finish(Number(RoundUnits(pody.result.units - pofd.result.units)),
                   pofd.filters)

\* calculate_odds: the quotient is one of Python floats (ZeroDivisionError)
calculate_odds(table, filters) ==
    LET at_call == filterwarnings("error", filters)
        pody == calculate_pody(table, at_call)
        pofd == calculate_pofd(table, pody.filters)
    IN IF pody.result = NoneValue \/ pofd.result = NoneValue
       THEN Finish(NoneValue, pofd.filters)
       ELSE IF pofd.result.units = 0 \/ pody.result.units = Scale
       THEN Finish(NoneValue, pofd.filters)
       ELSE Finish(Formula(<<"odds", pody.result.units, pofd.result.units>>),
                   pofd.filters)

\* calculate_me
calculate_me(table, filters) ==
    LET at_call == filterwarnings("error", filters)
        total == sum_column_data_by_name(table, "total")
        fbar == sum_column_data_by_name(table, "fbar")
        obar == sum_column_data_by_name(table, "obar")
    IN IF SomeNone(<<total, fbar, obar>>) THEN Finish(NoneValue, at_call)
       ELSE IF total[1] = 0 /\ WarningIsError(at_call) THEN Finish(NoneValue, at_call)
       ELSE Finish(Number(RoundHalfUp(fbar[1] - obar[1], total[1])), at_call)

\* calculate_me2
calculate_me2(table, filters) ==
    LET at_call == filterwarnings("error", filters)
        me == calculate_me(table, at_call)
    IN IF me.result = NoneValue THEN Finish(NoneValue, me.filters)
       ELSE Finish(Number(SquareUnits(me.result.units)), me.filters)

\* calculate_mse
calculate_mse(table, filters) ==
    LET at_call == filterwarnings("error", filters)
        total == sum_column_data_by_name(table, "total")
        ffbar == sum_column_data_by_name(table, "ffbar")
        oobar == sum_column_data_by_name(table, "oobar")
        fobar == sum_column_data_by_name(table, "fobar")
    IN IF SomeNone(<<total, ffbar, oobar, fobar>>) THEN Finish(NoneValue, at_call)
       ELSE IF total[1] = 0 /\ WarningIsError(at_call) THEN Finish(NoneValue, at_call)
       ELSE Finish(Number(RoundHalfUp(ffbar[1] + oobar[1] - 2 * fobar[1], total[1])),
                   at_call)

\* np.sqrt(x) followed by round_half_up, x None or a number of units: the
\* warning for a negative x is an exception only if the first filter says so
SqrtAndRound(x, filters) ==
    IF x = NoneValue THEN Finish(NoneValue, filters)
    ELSE IF x.units < 0
    THEN IF WarningIsError(filters) THEN Finish(NoneValue, filters)
         ELSE Outcome(RoundOfNaN, filters)
    ELSE Finish(Formula(<<"sqrt", x.units>>), filters)

\* calculate_rmse: the square root is taken after calculate_mse has returned
calculate_rmse(table, filters) ==
    LET at_call == filterwarnings("error", filters)
        mse == calculate_mse(table, at_call)
    IN SqrtAndRound(mse.result, mse.filters)

\* calculate_bcmse
calculate_bcmse(table, filters) ==
    LET at_call == filterwarnings("error", filters)
        mse == calculate_mse(table, at_call)
        me == calculate_me(table, mse.filters)
    IN IF mse.result = NoneValue \/ me.result = NoneValue
       THEN Finish(NoneValue, me.filters)
       ELSE Finish(Number(MinusSquareUnits(mse.result.units, me.result.units)),
                   me.filters)

\* calculate_bcrmse
calculate_bcrmse(table, filters) ==
    LET at_call == filterwarnings("error", filters)
        bcmse == calculate_bcmse(table, at_call)
    IN SqrtAndRound(bcmse.result, bcmse.filters)

\* calculate_ostdev with calculate_stddev(obar * total, oobar * total, total):
\* v = (sum_sq - sum_total * sum_total / n) / (n - 1), None for v < 0
calculate_ostdev(table, filters) ==
    LET at_call == filterwarnings("error", filters)
        total == sum_column_data_by_name(table, "total")
        obar == sum_column_data_by_name(table, "obar")
        oobar == sum_column_data_by_name(table, "oobar")
    IN IF SomeNone(<<total, obar, oobar>>) THEN Finish(NoneValue, at_call)
       ELSE IF total[1] = 0 /\ WarningIsError(at_call) THEN Finish(NoneValue, at_call)
       ELSE IF total[1] = 1 /\ WarningIsError(at_call) THEN Finish(NoneValue, at_call)
       ELSE LET num == oobar[1] * total[1] - obar[1] * obar[1]
                den == total[1] * (total[1] - 1)
            IN IF num < 0 THEN Finish(NoneValue, at_call)
               ELSE Finish(Formula(<<"sqrt", num, den>>), at_call)

\* calculate_msess: the quotient is one of Python floats (ZeroDivisionError)
calculate_msess(table, filters) ==
    LET at_call == filterwarnings("error", filters)
        ostdev == calculate_ostdev(table, at_call)
        mse == calculate_mse(table, ostdev.filters)
    IN IF ostdev.result = NoneValue \/ mse.result = NoneValue
       THEN Finish(NoneValue, mse.filters)
       ELSE IF ostdev.result.expr[2] = 0 THEN Finish(NoneValue, mse.filters)
       ELSE Finish(Formula(<<"msess", mse.result.units, ostdev.result.expr>>),
                   mse.filters)

\* calculate_vcnt_fbar_speed and calculate_vcnt_obar_speed, calc_speed inside
SpeedOf(table, filters, u_name, v_name) ==
    LET at_call == filterwarnings("error", filters)
        total == sum_column_data_by_name(table, "total")
        u == sum_column_data_by_name(table, u_name)
        v == sum_column_data_by_name(table, v_name)
    IN IF SomeNone(<<total, u, v>>) THEN Finish(NoneValue, at_call)
       ELSE IF total[1] = 0 /\ WarningIsError(at_call) THEN Finish(NoneValue, at_call)
       ELSE Finish(Formula(<<"speed", u[1], v[1], total[1]>>), at_call)

calculate_vcnt_fbar_speed(table, filters) == SpeedOf(table, filters, "ufbar", "vfbar")

calculate_vcnt_obar_speed(table, filters) == SpeedOf(table, filters, "uobar", "vobar")

\* calculate_vcnt_speed_err
calculate_vcnt_speed_err(table, filters) ==
    LET at_call == filterwarnings("error", filters)
        fspd == calculate_vcnt_fbar_speed(table, at_call)
        ospd == calculate_vcnt_obar_speed(table, fspd.filters)
    IN IF fspd.result = NoneValue \/ ospd.result = NoneValue
       THEN Finish(NoneValue, ospd.filters)
       ELSE Finish(Formula(<<"minus", fspd.result.expr, ospd.result.expr>>),
                   ospd.filters)

(***************************************************************************)
(* Callers of the statistic functions                                      *)
(***************************************************************************)
Families == {"ctc", "sl1l2", "vcnt"}

ColumnsOf(family) ==
    CASE family = "ctc" -> {"total", "fy_oy", "fn_oy", "fy_on", "fn_on"}
      [] family = "sl1l2" -> {"total", "fbar", "obar", "ffbar", "oobar", "fobar"}
      [] family = "vcnt" -> {"total", "ufbar", "vfbar", "uobar", "vobar"}

FunctionsOf(family) ==
    CASE family = "ctc" ->
             {"baser", "acc", "fbias", "pody", "pofd", "gss", "hk", "odds"}
      [] family = "sl1l2" ->
             {"me", "me2", "mse", "rmse", "bcmse", "bcrmse", "ostdev", "msess"}
      [] family = "vcnt" ->
             {"vcnt_fbar_speed", "vcnt_obar_speed", "vcnt_speed_err"}

\* the values of a cell of the first record
CellValues(family, column) ==
    IF family = "ctc" \/ column = "total" THEN {<<0>>, <<1>>, <<2>>}
    ELSE {<<0>>, <<1>>}

FirstRows(family) ==
    {row \in [ColumnsOf(family) -> {<<0>>, <<1>>, <<2>>}] :
        \A c \in ColumnsOf(family) : row[c] \in CellValues(family, c)}

\* a further record: ones, with at most one missing value
FurtherRows(family) ==
    {[c \in ColumnsOf(family) |-> IF c = missing THEN <<>> ELSE <<1>>] :
        missing \in ColumnsOf(family) \cup {NoValue}}

\* the column that the table may lack
AbsentColumns(family) ==
    CASE family = "ctc" -> {{}, {"total"}, {"fy_oy"}}
      [] family = "sl1l2" -> {{}, {"total"}, {"obar"}}
      [] family = "vcnt" -> {{}, {"total"}, {"uobar"}}

\* the filters a process starts with, and those that earlier calls leave
FiltersAtCall ==
    {<<"default">>, <<"ignore", "error", "default">>, <<"error", "ignore", "default">>}

\* globals()['calculate_' + name](input_data, columns_names)
Calculate(name, table, filters) ==
    CASE name = "baser" -> calculate_baser(table, filters)
      [] name = "acc" -> calculate_acc(table, filters)
      [] name = "fbias" -> calculate_fbias(table, filters)
      [] name = "pody" -> calculate_pody(table, filters)
      [] name = "pofd" -> calculate_pofd(table, filters)
      [] name = "gss" -> calculate_gss(table, filters)
      [] name = "hk" -> calculate_hk(table, filters)
      [] name = "odds" -> calculate_odds(table, filters)
      [] name = "me" -> calculate_me(table, filters)
      [] name = "me2" -> calculate_me2(table, filters)
      [] name = "mse" -> calculate_mse(table, filters)
      [] name = "rmse" -> calculate_rmse(table, filters)
      [] name = "bcmse" -> calculate_bcmse(table, filters)
      [] name = "bcrmse" -> calculate_bcrmse(table, filters)
      [] name = "ostdev" -> calculate_ostdev(table, filters)
      [] name = "msess" -> calculate_msess(table, filters)
      [] name = "vcnt_fbar_speed" -> calculate_vcnt_fbar_speed(table, filters)
      [] name = "vcnt_obar_speed" -> calculate_vcnt_obar_speed(table, filters)
      [] name = "vcnt_speed_err" -> calculate_vcnt_speed_err(table, filters)

StatsInit ==
    /\ stats_pc = "ready"
    /\ \E family \in Families :
           \E row \in FirstRows(family), absent \in AbsentColumns(family) :
               stats_input = [family |-> family,
                              columns_names |-> ColumnsOf(family) \ absent,
                              rows |-> <<row>>]
    /\ stats_func = NoValue
    /\ stats_result = [kind |-> "None"]
    /\ warning_filters \in FiltersAtCall
    /\ filters_at_call = warning_filters
    /\ agg_pc = "idle"
    /\ params = NoValue
    /\ input_data = NoFrame
    /\ AggIdle
    /\ ee_pc = "idle"
    /\ ee_cfg = NoValue
    /\ ee_in = NoFrame
    /\ ee_out = NoFrame
    /\ ee_reported = <<>>
    /\ ee_detected = FALSE
    /\ ee_out2 = NoFrame
    /\ ArrIdle

\* the table gets a further record
StatsAddRow ==
    /\ stats_pc = "ready"
    /\ Len(stats_input.rows) = 1
    /\ \E row \in FurtherRows(stats_input.family) :
           stats_input' = [stats_input EXCEPT !.rows = Append(@, row)]
    /\ UNCHANGED <<stats_pc, stats_func, stats_result, warning_filters,
                   filters_at_call>>
    /\ UNCHANGED <<eeVars, aggVars, arrVars>>

\* a statistic function is called and returns or raises
StatsCall ==
    /\ stats_pc = "ready"
    /\ \E name \in FunctionsOf(stats_input.family) :
           LET outcome == Calculate(name, stats_input, warning_filters)
           IN /\ stats_func' = name
              /\ IF outcome.result = RoundOfNaN
                 THEN \/ /\ stats_result' = RaisedError("ValueError")
                         /\ warning_filters' = outcome.filters
                      \/ /\ stats_result' = NonFinite
                         /\ warning_filters' = filterwarnings("ignore", outcome.filters)
                 ELSE /\ stats_result' = outcome.result
                      /\ warning_filters' = outcome.filters
    /\ stats_pc' = "called"
    /\ UNCHANGED <<stats_input, filters_at_call>>
    /\ UNCHANGED <<eeVars, aggVars, arrVars>>

StatsNext == StatsAddRow \/ StatsCall

SpecStats == StatsInit /\ [][StatsNext]_vars

(***************************************************************************)
(* Properties of the statistic functions                                   *)
(***************************************************************************)
\* the columns a statistic function reads
NeededColumns(name) ==
    CASE name = "baser" -> {"fy_oy", "fn_oy", "total"}
      [] name = "acc" -> {"fy_oy", "fn_on", "total"}
      [] name = "fbias" -> {"fy_oy", "fn_on", "fy_on"}
      [] name = "pody" -> {"fy_oy", "fn_oy"}
      [] name = "pofd" -> {"fy_on", "fn_on"}
      [] name = "gss" -> {"total", "fy_oy", "fy_on", "fn_oy"}
      [] name \in {"hk", "odds"} -> {"fy_oy", "fn_oy", "fy_on", "fn_on"}
      [] name \in {"me", "me2"} -> {"total", "fbar", "obar"}
      [] name \in {"mse", "rmse"} -> {"total", "ffbar", "oobar", "fobar"}
      [] name \in {"bcmse", "bcrmse"} -> {"total", "ffbar", "oobar", "fobar", "fbar", "obar"}
      [] name = "ostdev" -> {"total", "obar", "oobar"}
      [] name = "msess" -> {"total", "obar", "oobar", "ffbar", "fobar"}
      [] name = "vcnt_fbar_speed" -> {"total", "ufbar", "vfbar"}
      [] name = "vcnt_obar_speed" -> {"total", "uobar", "vobar"}
      [] name = "vcnt_speed_err" -> {"total", "ufbar", "vfbar", "uobar", "vobar"}

\* a needed column is absent or holds a NaN in some row
MissingData(name, table) ==
    \E c \in NeededColumns(name) : c \notin table.columns_names \/ HasNaN(table, c)

\* C13: every statistic function returns None (it neither raises nor returns a
\* number) when a column it needs is absent from the column names or holds a
\* NaN in some row.
C13_MissingDataGivesNone ==
    (stats_pc = "called" /\ MissingData(stats_func, stats_input)) =>
        stats_result = NoneValue

\* C14: a division by zero, a square root of a negative number or a log of a
\* non-positive number inside a statistic function, the composed ones included,
\* gives None: with complete data a call never raises and never returns a value
\* that is not finite.
C14_DomainErrorGivesNone ==
    (stats_pc = "called" /\ ~MissingData(stats_func, stats_input)) =>
        stats_result.kind \in {"number", "None"}

\* C15: on every return path of a statistic function the warning filters are
\* left as they were when the function was called.
C15_WarningFiltersRestored ==
    stats_pc = "called" => warning_filters = filters_at_call

\* the result of a constituent called on the same table
Constituent(name) == Calculate(name, stats_input, filters_at_call).result

\* a composed statistic is None when one of its constituents is
NoneOfConstituents(name, constituents) ==
    (stats_func = name /\ \E c \in constituents : Constituent(c) = NoneValue) =>
        stats_result = NoneValue

\* C16: calculate_hk is calculate_pody minus calculate_pofd when both are not
\* None, and None when either is; me2, bcmse, msess and vcnt_speed_err are None
\* whenever one of their constituents is None.
C16_ComposedFromConstituents ==
    stats_pc = "called" =>
        /\ NoneOfConstituents("hk", {"pody", "pofd"})
        /\ (stats_func = "hk" /\ Constituent("pody") # NoneValue
                              /\ Constituent("pofd") # NoneValue) =>
               stats_result =
                   Number(Constituent("pody").units - Constituent("pofd").units)
        /\ NoneOfConstituents("me2", {"me"})
        /\ NoneOfConstituents("bcmse", {"mse", "me"})
        /\ NoneOfConstituents("msess", {"ostdev", "mse"})
        /\ NoneOfConstituents("vcnt_speed_err", {"vcnt_fbar_speed", "vcnt_obar_speed"})

\* HK was computed from a POD of 1/3 and a POFD of 2/3, both rounded
C16_Witness ==
    /\ stats_pc = "called"
    /\ stats_func = "hk"
    /\ Constituent("pody") = Number(33333)
    /\ Constituent("pofd") = Number(66667)
    /\ stats_result = Number(0 - 33334)

(***************************************************************************)
(* Properties of event_equalize                                            *)
(***************************************************************************)
\* the partitions as specified: every series variable and every fixed
\* variable outside the exception columns, a single string value included
SpecifiedVarsForEE(cfg) ==
    LET fix_vars == FixVarsList(cfg.fix_vars)
        with_series == AddSeriesVars(<<>>, cfg.series_var_vals)
        kept == SelectSeq([i \in 1..Len(fix_vars) |-> i],
                          LAMBDA i : fix_vars[i] \notin exception_columns)
    IN with_series \o
       [k \in 1..Len(kept) |->
           <<fix_vars[kept[k]],
             IF cfg.fix_vals_permuted[kept[k]].str
             THEN <<cfg.fix_vals_permuted[kept[k]].v>>
             ELSE cfg.fix_vals_permuted[kept[k]].v>>]

SpecifiedPartitions(cfg) ==
    Product([i \in 1..Len(SpecifiedVarsForEE(cfg)) |-> SpecifiedVarsForEE(cfg)[i][2]])

\* the case keys found in one specified partition of a frame
PartitionKeys(data, cfg, partition) ==
    {data.equalize[i] : i \in {j \in 1..Len(data.rows) :
        \A k \in 1..Len(SpecifiedVarsForEE(cfg)) :
            Cell(data, data.rows[j], SpecifiedVarsForEE(cfg)[k][1]) = partition[k]}}

InEveryPartition(data, cfg, i) ==
    \A p \in Range(SpecifiedPartitions(cfg)) :
        data.equalize[i] \in PartitionKeys(data, cfg, p)

\* C6: event_equalize retains a row if and only if its case key occurs in
\* every partition of the cartesian product of all series-variable and all
\* fixed-variable value sets (a fixed variable given as one string included)
C6_RetainsIffInEveryPartition ==
    ee_pc = "returned" =>
        LET kept == SelectSeq([i \in 1..Len(ee_in.rows) |-> i],
                              LAMBDA i : InEveryPartition(ee_in, ee_cfg, i))
        IN ee_out.rows = [k \in 1..Len(kept) |-> ee_in.rows[kept[k]]]

\* C7: with equalize_by_indep and an independent variable outside the
\* exception columns, two rows with the same time and lead but different
\* independent values have different case keys
C7_CaseKeyHoldsIndependentValue ==
    (ee_pc = "returned" /\ ee_cfg.equalize_by_indep
         /\ ee_cfg.indy_var \notin exception_columns) =>
        \A i, j \in 1..Len(ee_in.rows) :
            (/\ ee_in.rows[i].tkey = ee_in.rows[j].tkey
             /\ ee_in.rows[i].fcst_lead = ee_in.rows[j].fcst_lead
             /\ Cell(ee_in, ee_in.rows[i], ee_cfg.indy_var)
                    # Cell(ee_in, ee_in.rows[j], ee_cfg.indy_var))
            => ee_in.equalize[i] # ee_in.equalize[j]

\* C8: for a frame that carries any one of the four temporal columns plus
\* fcst_lead, and an independent variable that names a column, event_equalize
\* does not raise
C8_NeverRaisesForDataShape ==
    (/\ Cardinality(column_names(ee_in) \cap TemporalColumns) = 1
     /\ "fcst_lead" \in column_names(ee_in)
     /\ ee_cfg.indy_var \in column_names(ee_in))
        => ee_pc # "raised"

\* s is t with some entries left out, order kept
RECURSIVE IsSubSeq(_, _)
IsSubSeq(s, t) ==
    IF s = <<>> THEN TRUE
    ELSE IF t = <<>> THEN FALSE
    ELSE IF Head(s) = Head(t) THEN IsSubSeq(Tail(s), Tail(t))
    ELSE IsSubSeq(s, Tail(t))

\* C9: the returned rows are rows of the input, never more of them, and when
\* rows were removed the printed count is len(before) - len(after)
C9_OnlyRemovesAndReportsDelta ==
    ee_pc = "returned" =>
        /\ Len(ee_out.rows) <= Len(ee_in.rows)
        /\ IsSubSeq(ee_out.rows, ee_in.rows)
        /\ Len(ee_out.rows) < Len(ee_in.rows) =>
               ee_reported = <<Len(ee_in.rows) - Len(ee_out.rows)>>
        /\ Len(ee_out.rows) = Len(ee_in.rows) => ee_reported = <<>>

C9_Witness ==
    /\ ee_pc = "returned"
    /\ ee_out.rows # <<>>
    /\ Len(ee_out.rows) < Len(ee_in.rows)
    /\ ee_reported = <<1>>

\* C10: event_equalize applied to its own output returns the same rows
C10_Idempotent ==
    /\ ee_pc = "reapplied" => ee_out2.rows = ee_out.rows
    /\ ee_pc # "reraised"

C10_Witness ==
    /\ ee_pc = "reapplied"
    /\ ee_out.rows # <<>>
    /\ Len(ee_out.rows) < Len(ee_in.rows)
    /\ ee_out2.rows = ee_out.rows

====
